---- MODULE Spec2Model ----
(***************************************************************************)
(* Availability-resolution and streaming-aggregation pipeline of           *)
(* vinyl-destination: the retrying HTTP clients (lib/discogs.ts            *)
(* fetchWithRetry / discogsFetch, lib/spotify.ts spotifyFetch), the        *)
(* persistent availability cache (lib/db.ts, checkVinylAvailability) and   *)
(* the streaming coordinator (app/api/recommendations/stream/route.ts).    *)
(*                                                                         *)
(* Three specifications share the module's variables; each leaves the      *)
(* variables of the other components at their idle values:                 *)
(*   SpecRetry  - one call through a retrying client                       *)
(*   SpecCache  - checkVinylAvailability over the persistent tier          *)
(*   SpecStream - one request of the streaming endpoint                    *)
(***************************************************************************)
EXTENDS Integers, Sequences, FiniteSets, TLC

VARIABLES
    \* ---- retrying clients ----
    retryDefaults,  \* [maxRetries, baseDelayMs]: the module-level knobs
    client,         \* "none" | "discogs" | "spotify": whose call is running
    attempt,        \* the loop variable of the running call
    calls,          \* outbound fetch() invocations of the running call
    sleeps,         \* the backoff delays slept so far, in order (ms)
    warns,          \* logger.warn records emitted by the running call
    lastRetry,      \* the response that caused the latest backoff, and its delay
    response,       \* the latest outcome of fetch(): a response or a rejection
    seen,           \* kinds of outcomes fetch() has produced in this call
    rpc,            \* "idle" | "loop" | "done"
    outcome,        \* how the call ended
    \* ---- persistent availability cache ----
    now,            \* Date.now(), in ms
    ticks,          \* clock advances so far (bounds the behaviours)
    vinyl_cache,    \* the rows of table vinyl_cache
    cpc,            \* "idle" | "searching": position of checkVinylAvailability
    lookup,         \* the latest checkVinylAvailability call: arguments and course
    result,         \* what the latest completed call returned
    \* ---- streaming coordinator (one request) ----
    input,          \* what the providers return to this request
    user_albums,    \* the user's rows of table user_albums
    spc,            \* position of the stream's start() routine
    stage,          \* "primary" | "collection" | "classics": the running loop
    aborted,        \* the closure's aborted flag
    channel,        \* "open" | "closed" | "cancelled" | "broken"
    frames,         \* the frames enqueued so far, in order
    actionedAlbumIds,
    seenAlbumIds,
    totalSent,
    srcIdx,         \* index into albumsBySource
    queue,          \* what is left of the list the running loop iterates
    inflight,       \* the album whose checkVinylAvailability is awaited
    got,            \* the lists the enrichment calls delivered
    caught,         \* the calls whose error an enrichment stage caught and logged
    resolutions,    \* per album, the checkVinylAvailability calls started for it
    closes,         \* the calls of controller.close() that returned
    thrown,         \* the calls of controller.enqueue() and close() that threw
    \* ---- rate limiter (one RateLimiter instance) ----
    limiter,        \* [maxRequests, windowMs]: the constructor's arguments
    windows,        \* the Map key -> timestamps, as a function on its keys
    clock,          \* Date.now() of the limiter's process (ms)
    lres,           \* the latest check: its key, its time and what it returned
    allowedLog,     \* per key, the times of the allowed checks (since reset()) that
                    \* lie within the window that ends now
    lastBlocked,    \* per key, the latest blocked check (since reset()) whose
                    \* resetMs has not run out and which no allowed check
                    \* has followed: [at, resetMs]
    unswept,        \* the Map of a limiter given the same check() and reset()
                    \* calls at the same times, and no cleanup() call
    \* ---- the streaming endpoint, GET /api/recommendations/stream ----
    served,         \* per client key, the requests that got a stream
    lastStatus,     \* HTTP status of the latest response (0: none yet)
    \* ---- concurrent callers of the persistent tier ----
    procs,          \* per caller, its checkVinylAvailability call
    lastWrite,      \* how the latest search ended: who, what was written, over what
    bulk,           \* what the latest getBulkCachedVinylStatus got and returned
    \* ---- the catalog client's in-memory cache, with concurrent callers ----
    memCache,       \* the Map endpoint -> {data, timestamp}, on its keys
    memNow,         \* Date.now() of the catalog client's process (ms)
    fetchers,       \* per caller, its discogsFetch call
    outbound        \* per endpoint, the requests sent to the catalog

retryVars == <<retryDefaults, client, attempt, calls, sleeps, warns, lastRetry,
               response, seen, rpc, outcome>>

----------------------------------------------------------------------------
cacheVars == <<now, ticks, vinyl_cache, cpc, lookup, result>>

streamVars == <<input, user_albums, spc, stage, aborted, channel, frames,
                actionedAlbumIds, seenAlbumIds, totalSent, srcIdx, queue,
                inflight, got, caught, resolutions, closes, thrown>>

limiterVars == <<limiter, windows, clock, lres, allowedLog, lastBlocked, unswept>>

endpointVars == <<served, lastStatus>>

raceVars == <<procs, lastWrite, bulk>>

memVars == <<memCache, memNow, fetchers, outbound>>

\* what the actions of one component leave alone
retryOnly == <<cacheVars, streamVars, limiterVars, endpointVars, raceVars, memVars>>
cacheOnly == <<retryVars, streamVars, limiterVars, endpointVars, raceVars, memVars>>
streamOnly == <<retryVars, cacheVars, limiterVars, endpointVars, raceVars, memVars>>
limiterOnly == <<retryVars, cacheVars, streamVars, endpointVars, raceVars, memVars>>
endpointOnly == <<retryVars, cacheVars, streamVars, raceVars, memVars>>
raceOnly == <<retryVars, streamVars, limiterVars, endpointVars, memVars, cpc, lookup,
              result>>
memOnly == <<retryVars, cacheVars, streamVars, limiterVars, endpointVars, raceVars>>

----------------------------------------------------------------------------
(* Bounds of the retry model *)

\* maxRetries is drawn from 0..MaxRetriesCfg (the shipped default is 3)
MaxRetriesCfg == 3

\* baseDelayMs values: the two the tests set and the shipped default
BaseDelays == {50, 100, 1000}

----------------------------------------------------------------------------
(* Header values and the two conversions applied to Retry-After *)

\* headers.get() answers null when the header is absent
Null == <<"null">>

Digits == {"0", "1", "2", "3", "4", "5", "6", "7", "8", "9"}

DigitVal(c) ==
    CASE c = "0" -> 0 [] c = "1" -> 1 [] c = "2" -> 2 [] c = "3" -> 3
      [] c = "4" -> 4 [] c = "5" -> 5 [] c = "6" -> 6 [] c = "7" -> 7
      [] c = "8" -> 8 [] c = "9" -> 9

\* Retry-After header values a response may carry (strings as character
\* sequences): absent, empty, whole seconds, and text that is not a number.
RetryAfterHeaders ==
    {Null, <<>>, <<"0">>, <<"1">>, <<"3">>, <<"x">>, <<"1", "x">>, <<" ", "3">>}

RECURSIVE SkipSpaces(_)
SkipSpaces(s) ==
    IF s # <<>> /\ Head(s) = " " THEN SkipSpaces(Tail(s)) ELSE s

RECURSIVE TrimRight(_)
TrimRight(s) ==
    IF s # <<>> /\ s[Len(s)] = " " THEN TrimRight(SubSeq(s, 1, Len(s) - 1)) ELSE s

\* value of the longest prefix of decimal digits, given the value read so far
RECURSIVE LeadingDigits(_, _)
LeadingDigits(s, acc) ==
    IF s # <<>> /\ Head(s) \in Digits
    THEN LeadingDigits(Tail(s), acc * 10 + DigitVal(Head(s)))
    ELSE acc

AllDigits(s) == \A i \in 1..Len(s) : s[i] \in Digits

\* parseInt(s, 10): leading white space is skipped, then the longest run of
\* digits is read; NaN when there is none.
ParseInt(s) ==
    LET t == SkipSpaces(s) IN
    IF t # <<>> /\ Head(t) \in Digits
    THEN [nan |-> FALSE, val |-> LeadingDigits(t, 0)]
    ELSE [nan |-> TRUE, val |-> 0]

\* Number(s): the whole trimmed string must be a numeral; "" converts to 0.
Number(s) ==
    LET t == TrimRight(SkipSpaces(s)) IN
    IF AllDigits(t)
    THEN [nan |-> FALSE, val |-> LeadingDigits(t, 0)]
    ELSE [nan |-> TRUE, val |-> 0]

\* JavaScript truthiness of a string-or-null
Truthy(h) == h # Null /\ h # <<>>

RECURSIVE Pow2(_)
Pow2(n) == IF n = 0 THEN 1 ELSE 2 * Pow2(n - 1)

Max(a, b) == IF a >= b THEN a ELSE b

----------------------------------------------------------------------------
(* What fetch() can produce *)

Statuses == {200, 401, 404, 429, 500, 503}

\* a response; only the status and the Retry-After header are read
Responses ==
    {[kind |-> "http", status |-> 429, retryAfter |-> h] : h \in RetryAfterHeaders}
    \cup {[kind |-> "http", status |-> s, retryAfter |-> h] :
            s \in Statuses \ {429}, h \in {Null, <<"3">>}}

\* fetch() rejected: connection error, or the per-attempt timeout fired
TransportError == [kind |-> "reject", status |-> 0, retryAfter |-> Null]

NoResponse == [kind |-> "none", status |-> 0, retryAfter |-> Null]

NoRetry == [status |-> 0, retryAfter |-> Null, attempt |-> 0, delayMs |-> 0]

\* response.ok
Ok(status) == status >= 200 /\ status <= 299

----------------------------------------------------------------------------
(* lib/discogs.ts: fetchWithRetry and discogsFetch's reading of its result *)

\* a bug that would retry every error status
IsRetryable_Any4xx(status) == status >= 400 /\ status < 600

IsRetryable(status) == status = 429 \/ (status >= 500 /\ status < 600)

\* the for loop's condition: attempt <= maxRetries
LoopContinues(a, maxRetries) == a <= maxRetries

\* a bug that would give up one retry early
AttemptsRemain_OffByOne(a, maxRetries) == a + 1 < maxRetries

\* the retry guard's second conjunct: attempt < maxRetries
AttemptsRemain(a, maxRetries) == a < maxRetries

\* a bug that would let the Retry-After hint replace the backoff delay
DelayMs_HintReplaces(baseDelayMs, a, resp) ==
    LET delayMs == baseDelayMs * Pow2(a)
        parsed == ParseInt(resp.retryAfter)
    IN IF resp.status = 429 /\ Truthy(resp.retryAfter) /\ ~parsed.nan
       THEN parsed.val * 1000
       ELSE delayMs

\* delayMs as fetchWithRetry computes it before logging and sleeping
DelayMs(baseDelayMs, a, resp) ==
    LET delayMs == baseDelayMs * Pow2(a)
        parsed == ParseInt(resp.retryAfter)
    IN IF resp.status = 429 /\ Truthy(resp.retryAfter) /\ ~parsed.nan
       THEN Max(delayMs, parsed.val * 1000)
       ELSE delayMs

\* discogsFetch on the response fetchWithRetry returned
DiscogsClassify(status) ==
    IF status = 429 THEN "rate_limit"
    ELSE IF ~Ok(status) THEN "discogs_api_error"
    ELSE "ok"

discogsFetch ==
    /\ rpc = "idle"
    /\ rpc' = "loop"
    /\ client' = "discogs"
    /\ UNCHANGED <<retryDefaults, attempt, calls, sleeps, warns, lastRetry,
                   response, seen, outcome>>
    /\ UNCHANGED retryOnly

\* one iteration of fetchWithRetry's loop whose fetch() resolved with resp
fetchWithRetry(resp) ==
    /\ rpc = "loop"
    /\ client = "discogs"
    /\ LoopContinues(attempt, retryDefaults.maxRetries)
    /\ calls' = calls + 1
    /\ response' = resp
    /\ seen' = seen \cup {IF resp.status = 429 THEN "429"
                          ELSE IF resp.status >= 500 THEN "5xx"
                          ELSE IF Ok(resp.status) THEN "2xx" ELSE "4xx"}
    /\ IF IsRetryable(resp.status) /\ AttemptsRemain(attempt, retryDefaults.maxRetries)
       THEN LET d == DelayMs(retryDefaults.baseDelayMs, attempt, resp) IN
            /\ warns' = warns + 1
            /\ sleeps' = Append(sleeps, d)
            /\ lastRetry' = [status |-> resp.status, retryAfter |-> resp.retryAfter,
                             attempt |-> attempt, delayMs |-> d]
            /\ attempt' = attempt + 1
            /\ IF LoopContinues(attempt + 1, retryDefaults.maxRetries)
               THEN UNCHANGED <<rpc, outcome>>
               ELSE rpc' = "done" /\ outcome' = "exhausted"
       ELSE /\ rpc' = "done"
            /\ outcome' = DiscogsClassify(resp.status)
            /\ UNCHANGED <<warns, sleeps, lastRetry, attempt>>
    /\ UNCHANGED <<retryDefaults, client>>
    /\ UNCHANGED retryOnly

\* fetch() rejects inside fetchWithRetry: nothing catches it, so the rejection
\* leaves fetchWithRetry and discogsFetch as it is
fetchWithRetryRejects ==
    /\ rpc = "loop"
    /\ client = "discogs"
    /\ LoopContinues(attempt, retryDefaults.maxRetries)
    /\ calls' = calls + 1
    /\ response' = TransportError
    /\ seen' = seen \cup {"reject"}
    /\ rpc' = "done"
    /\ outcome' = "transport_error"
    /\ UNCHANGED <<retryDefaults, client, attempt, sleeps, warns, lastRetry>>
    /\ UNCHANGED retryOnly

----------------------------------------------------------------------------
(* lib/spotify.ts: spotifyFetch *)

SpotifyRetryable(status) == status = 429 \/ status >= 500

\* the delay spotifyFetch sleeps after a retryable response
SpotifyDelayMs(baseDelayMs, a, resp) ==
    LET delayMs == baseDelayMs * Pow2(a)
        parsed == Number(resp.retryAfter)
    IN IF resp.status = 429 /\ Truthy(resp.retryAfter) /\ ~parsed.nan /\ parsed.val > 0
       THEN parsed.val * 1000
       ELSE delayMs

spotifyFetchBegin ==
    /\ rpc = "idle"
    /\ rpc' = "loop"
    /\ client' = "spotify"
    /\ UNCHANGED <<retryDefaults, attempt, calls, sleeps, warns, lastRetry,
                   response, seen, outcome>>
    /\ UNCHANGED retryOnly

\* one iteration of spotifyFetch's loop whose fetch() resolved with resp
spotifyFetch(resp) ==
    /\ rpc = "loop"
    /\ client = "spotify"
    /\ LoopContinues(attempt, retryDefaults.maxRetries)
    /\ calls' = calls + 1
    /\ response' = resp
    /\ seen' = seen \cup {IF resp.status = 429 THEN "429"
                          ELSE IF resp.status >= 500 THEN "5xx"
                          ELSE IF Ok(resp.status) THEN "2xx" ELSE "4xx"}
    /\ IF Ok(resp.status)
       THEN /\ rpc' = "done"
            /\ outcome' = "ok"
            /\ UNCHANGED <<sleeps, lastRetry, attempt>>
       ELSE IF SpotifyRetryable(resp.status)
               /\ AttemptsRemain(attempt, retryDefaults.maxRetries)
       THEN LET d == SpotifyDelayMs(retryDefaults.baseDelayMs, attempt, resp) IN
            /\ sleeps' = Append(sleeps, d)
            /\ lastRetry' = [status |-> resp.status, retryAfter |-> resp.retryAfter,
                             attempt |-> attempt, delayMs |-> d]
            /\ attempt' = attempt + 1
            /\ IF LoopContinues(attempt + 1, retryDefaults.maxRetries)
               THEN UNCHANGED <<rpc, outcome>>
               ELSE rpc' = "done" /\ outcome' = "spotify_api_error"
       ELSE /\ rpc' = "done"
            /\ outcome' = "spotify_api_error"
            /\ UNCHANGED <<sleeps, lastRetry, attempt>>
    /\ UNCHANGED <<retryDefaults, client, warns>>
    /\ UNCHANGED retryOnly

\* fetch() rejects inside spotifyFetch (connection error or AbortSignal.timeout):
\* the catch block backs off and retries while attempts remain, else rethrows
spotifyFetchRejects ==
    /\ rpc = "loop"
    /\ client = "spotify"
    /\ LoopContinues(attempt, retryDefaults.maxRetries)
    /\ calls' = calls + 1
    /\ response' = TransportError
    /\ seen' = seen \cup {"reject"}
    /\ IF AttemptsRemain(attempt, retryDefaults.maxRetries)
       THEN LET d == retryDefaults.baseDelayMs * Pow2(attempt) IN
            /\ sleeps' = Append(sleeps, d)
            /\ lastRetry' = [status |-> 0, retryAfter |-> Null,
                             attempt |-> attempt, delayMs |-> d]
            /\ attempt' = attempt + 1
            /\ IF LoopContinues(attempt + 1, retryDefaults.maxRetries)
               THEN UNCHANGED <<rpc, outcome>>
               ELSE rpc' = "done" /\ outcome' = "spotify_api_error"
       ELSE /\ rpc' = "done"
            /\ outcome' = "transport_error"
            /\ UNCHANGED <<sleeps, lastRetry, attempt>>
    /\ UNCHANGED <<retryDefaults, client, warns>>
    /\ UNCHANGED retryOnly


----------------------------------------------------------------------------
(* lib/db.ts: the persistent tier (table vinyl_cache) *)

CACHE_TTL_SECONDS == 7 * 24 * 60 * 60

\* clock advances per behaviour
MaxTicks == 4

\* the clock stays below two TTLs (and so within the checker's integers)
MaxNowMs == 2 * CACHE_TTL_SECONDS * 1000

\* how far one clock advance goes (ms): half a second, and half a second
\* short of the TTL
TickStepsMs == {500, CACHE_TTL_SECONDS * 1000 - 500}

\* artist and album names a caller may pass (strings as character sequences)
ArtistNames == {<<"P", "f">>, <<"p", "f">>, <<"p", "f", " ">>}
AlbumNames == {<<"W">>, <<"w">>}

\* String.prototype.toLowerCase, character by character
LowerChar(c) ==
    CASE c = "P" -> "p" [] c = "F" -> "f" [] c = "W" -> "w" [] OTHER -> c

ToLowerCase(s) == [i \in 1..Len(s) |-> LowerChar(s[i])]

\* Math.floor(Date.now() / 1000)
NowSeconds(nowMs) == nowMs \div 1000

\* the uri of the releases a catalog search may return
Releases == {<<>>, <<"/release/2", "/release/1">>}

NoRow == [hasVinyl |-> FALSE, discogsUrl |-> Null, found |-> FALSE]

\* a bug that would keep a row alive for one second too long
Unexpired_Inclusive(row, nowMs) ==
    row.checked_at >= NowSeconds(nowMs) - CACHE_TTL_SECONDS

\* the WHERE clause's third conjunct: checked_at > expiryTime
Unexpired(row, nowMs) == row.checked_at > NowSeconds(nowMs) - CACHE_TTL_SECONDS

\* the row SELECTed by getCachedVinylStatus, as a set (empty: no row)
SelectRows(cache, artistName, albumName, nowMs) ==
    {row \in cache : /\ row.artist_name = ToLowerCase(artistName)
                     /\ row.album_name = ToLowerCase(albumName)
                     /\ Unexpired(row, nowMs)}

getCachedVinylStatus(cache, artistName, albumName, nowMs) ==
    LET rows == SelectRows(cache, artistName, albumName, nowMs) IN
    IF rows = {} THEN NoRow
    ELSE LET row == CHOOSE r \in rows : TRUE IN
         [hasVinyl |-> row.has_vinyl = 1, discogsUrl |-> row.discogs_url,
          found |-> TRUE]

\* a bug that would store the names as passed
CacheRow_RawKey(artistName, albumName, hasVinyl, discogsUrl, nowMs) ==
    [artist_name |-> artistName,
     album_name |-> albumName,
     has_vinyl |-> IF hasVinyl THEN 1 ELSE 0,
     discogs_url |-> discogsUrl,
     checked_at |-> NowSeconds(nowMs)]

\* the row setCachedVinylStatus binds to its statement
CacheRow(artistName, albumName, hasVinyl, discogsUrl, nowMs) ==
    [artist_name |-> ToLowerCase(artistName),
     album_name |-> ToLowerCase(albumName),
     has_vinyl |-> IF hasVinyl THEN 1 ELSE 0,
     discogs_url |-> discogsUrl,
     checked_at |-> NowSeconds(nowMs)]

\* the rows that conflict with `new` on UNIQUE(artist_name, album_name)
Conflicting(cache, new) ==
    {row \in cache : /\ row.artist_name = new.artist_name
                     /\ row.album_name = new.album_name}

\* a plain INSERT: on a conflict the statement throws and the table stays
Upsert_PlainInsert(cache, new) ==
    IF Conflicting(cache, new) # {} THEN cache ELSE cache \cup {new}

\* INSERT ... ON CONFLICT(artist_name, album_name) DO UPDATE
Upsert(cache, new) ==
    {row \in cache : ~(row.artist_name = new.artist_name
                       /\ row.album_name = new.album_name)} \cup {new}

\* the statement with no `checked_at = @checked_at` in its DO UPDATE SET
setCachedVinylStatus_KeepsCheckedAt(cache, artistName, albumName, hasVinyl, discogsUrl, nowMs) ==
    LET new == CacheRow(artistName, albumName, hasVinyl, discogsUrl, nowMs)
        old == {row \in cache : /\ row.artist_name = new.artist_name
                                /\ row.album_name = new.album_name}
    IN IF old = {} THEN cache \cup {new}
       ELSE (cache \ old)
            \cup {[new EXCEPT !.checked_at = (CHOOSE r \in old : TRUE).checked_at]}

setCachedVinylStatus(cache, artistName, albumName, hasVinyl, discogsUrl, nowMs) ==
    Upsert(cache, CacheRow(artistName, albumName, hasVinyl, discogsUrl, nowMs))

----------------------------------------------------------------------------
(* lib/discogs.ts: checkVinylAvailability *)

Unavailable == [available |-> FALSE, discogsUrl |-> Null]

\* course: "none" | "hit" | "searching" | "stored" | "threw" (the search threw,
\* caught) | "write_threw" (the cache write threw, caught) | "rejected" (the
\* cache read threw and the call rejected); at: the second
\* (Math.floor(Date.now() / 1000)) of the cache read, then of the write
NoLookup == [artist |-> <<>>, album |-> <<>>, course |-> "none", at |-> 0]

\* `https://www.discogs.com${releases[0].uri}`
DiscogsUrl(uri) == <<"https://www.discogs.com", uri>>

\* the call up to its first await of the network: the cache read, and the
\* return on a hit
checkVinylAvailability(artist, album) ==
    /\ cpc = "idle"
    /\ LET cached == getCachedVinylStatus(vinyl_cache, artist, album, now) IN
       IF cached.found
       THEN /\ result' = [available |-> cached.hasVinyl,
                          discogsUrl |-> cached.discogsUrl]
            /\ lookup' = [artist |-> artist, album |-> album, course |-> "hit",
                          at |-> NowSeconds(now)]
            /\ UNCHANGED cpc
       ELSE /\ cpc' = "searching"
            /\ lookup' = [artist |-> artist, album |-> album,
                          course |-> "searching", at |-> NowSeconds(now)]
            /\ UNCHANGED result
    /\ UNCHANGED <<now, ticks, vinyl_cache>>
    /\ UNCHANGED cacheOnly

\* searchVinylRelease resolved with `releases`: the verdict is stored and returned
searchVinylReleaseReturns(releases) ==
    /\ cpc = "searching"
    /\ LET available == Len(releases) > 0
           discogsUrl == IF available THEN DiscogsUrl(releases[1]) ELSE Null
       IN /\ vinyl_cache' = setCachedVinylStatus(vinyl_cache, lookup.artist,
                                lookup.album, available, discogsUrl, now)
          /\ result' = [available |-> available, discogsUrl |-> discogsUrl]
    /\ lookup' = [lookup EXCEPT !.course = "stored", !.at = NowSeconds(now)]
    /\ cpc' = "idle"
    /\ UNCHANGED <<now, ticks>>
    /\ UNCHANGED cacheOnly

\* a bug that would store the negative verdict from the catch block
searchVinylReleaseThrows_Poisons ==
    /\ cpc = "searching"
    /\ result' = Unavailable
    /\ vinyl_cache' = setCachedVinylStatus(vinyl_cache, lookup.artist, lookup.album,
                                           FALSE, Null, now)
    /\ lookup' = [lookup EXCEPT !.course = "threw"]
    /\ cpc' = "idle"
    /\ UNCHANGED <<now, ticks>>
    /\ UNCHANGED cacheOnly

\* searchVinylRelease threw (discogsFetch failed): the catch block logs and
\* answers "unavailable"
searchVinylReleaseThrows ==
    /\ cpc = "searching"
    /\ result' = Unavailable
    /\ lookup' = [lookup EXCEPT !.course = "threw"]
    /\ cpc' = "idle"
    /\ UNCHANGED <<now, ticks, vinyl_cache>>
    /\ UNCHANGED cacheOnly

\* getCachedVinylStatus throws: the read is before the try block, so the call
\* rejects and returns nothing
getCachedVinylStatusThrows(artist, album) ==
    /\ cpc = "idle"
    /\ lookup' = [artist |-> artist, album |-> album, course |-> "rejected",
                  at |-> NowSeconds(now)]
    /\ UNCHANGED <<now, ticks, vinyl_cache, cpc, result>>
    /\ UNCHANGED cacheOnly

\* searchVinylRelease resolved and setCachedVinylStatus throws: the catch block
\* logs and answers "unavailable", whatever the search found
setCachedVinylStatusThrows ==
    /\ cpc = "searching"
    /\ result' = Unavailable
    /\ lookup' = [lookup EXCEPT !.course = "write_threw"]
    /\ cpc' = "idle"
    /\ UNCHANGED <<now, ticks, vinyl_cache>>
    /\ UNCHANGED cacheOnly

\* time passes
Tick(stepMs) ==
    /\ ticks < MaxTicks
    /\ now + stepMs <= MaxNowMs
    /\ ticks' = ticks + 1
    /\ now' = now + stepMs
    /\ UNCHANGED <<vinyl_cache, cpc, lookup, result>>
    /\ UNCHANGED cacheOnly

CacheIdle ==
    /\ now = 0
    /\ ticks = 0
    /\ vinyl_cache = {}
    /\ cpc = "idle"
    /\ lookup = NoLookup
    /\ result = Unavailable


----------------------------------------------------------------------------
(* app/api/recommendations/stream/route.ts: what a request is given *)

maxAlbums == 40

SKIP_EXPIRY_SECONDS == 48 * 60 * 60

\* lists up to this length are shuffled into any order; longer lists into
\* their given or their reversed order
MaxShuffleLen == 3

\* by how many albums the long source lists exceed, or fall short of, the cap
BulkMargin == 2

\* identifiers: a Spotify album id, and `discogs_${classic.id}`
SpId(n) == <<"sp", n>>
FakeId(n) == <<"discogs_", n>>

\* the catalogue the providers answer from. Album 3 is a single; album 2 has
\* no vinyl release; the lookup of album 4 succeeds on some calls and not on
\* others (a transient catalog failure answers "unavailable"); every other
\* album is a full-length album with a vinyl release. Discogs release 5 is a
\* 7" single (format ["Vinyl", "7\"", "Single"]); every other release is an LP.
AlbumType(n) == IF n = 3 THEN "single" ELSE "album"
ClassicType(id) == IF id = 5 THEN "single" ELSE "album"
Availability(n) ==
    IF n = 2 THEN {FALSE} ELSE IF n = 4 THEN {TRUE, FALSE} ELSE {TRUE}

Range(a, b) == [i \in 1..(b - a + 1) |-> a + i - 1]

\* the instant of the request (ms), and rows of user_albums relative to it
StreamNowMs == 1000 * 1000
SkipLimit == NowSeconds(StreamNowMs) - SKIP_EXPIRY_SECONDS

NoArtist == "null"

Row(id, status, created_at, artist) ==
    [album_id |-> id, status |-> status, created_at |-> created_at,
     artist_name |-> artist]

UserAlbumTables ==
    { {},
      { Row(SpId(5), "owned", 10, "a1"), Row(SpId(1), "skipped", SkipLimit, NoArtist),
        Row(SpId(6), "skipped", SkipLimit + 1, NoArtist),
        Row(SpId(8), "skipped", SkipLimit + 3600, NoArtist),
        Row(FakeId(3), "not_interested", 20, NoArtist) },
      { Row(SpId(9), "wishlist", 10, "a2"), Row(SpId(10), "owned", 10, NoArtist) } }

Classic(id, titled) == [id |-> id, titled |-> titled]

NoInput == [topTracks |-> <<>>, savedAlbums |-> <<>>, recentlyPlayed |-> <<>>,
            longTerm |-> <<>>, recs |-> <<>>, classics |-> <<>>]

\* the album lists of the four sources, the recommended tracks' albums and
\* the most-collected releases: none at all, one hit, one miss, a mix with
\* repeats, singles and excluded albums, and lists around the cap
Inputs ==
    { NoInput,
      [NoInput EXCEPT !.topTracks = <<1>>],
      [NoInput EXCEPT !.savedAlbums = <<2>>],
      [topTracks |-> <<1, 1, 3>>, savedAlbums |-> <<2, 1, 5>>,
       recentlyPlayed |-> <<4, 5>>, longTerm |-> <<3, 6>>,
       recs |-> <<6, 8, 4>>,
       classics |-> <<Classic(1, TRUE), Classic(2, FALSE), Classic(3, TRUE)>>],
      [NoInput EXCEPT !.longTerm = Range(7, 6 + maxAlbums + BulkMargin),
                      !.topTracks = <<1, 4>>],
      [NoInput EXCEPT !.topTracks = Range(7, 6 + maxAlbums - BulkMargin),
                      !.recs = <<5, 1, 9>>,
                      !.classics = <<Classic(1, TRUE), Classic(2, TRUE),
                                     Classic(3, TRUE)>>],
      [NoInput EXCEPT !.savedAlbums = Range(9, 8 + maxAlbums - BulkMargin - 1),
                      !.recentlyPlayed = <<4, 9>>,
                      !.classics = <<Classic(1, TRUE), Classic(2, TRUE),
                                     Classic(3, FALSE), Classic(4, TRUE),
                                     Classic(5, TRUE)>>] }

ClassicLists == {in.classics : in \in Inputs} \cup {<<>>}

Reverse(seq) == [i \in 1..Len(seq) |-> seq[Len(seq) + 1 - i]]

\* [...albums].sort(() => Math.random() - 0.5)
Shuffle(albums) ==
    IF Len(albums) <= MaxShuffleLen
    THEN {[i \in 1..Len(albums) |-> albums[perm[i]]] :
              perm \in Permutations(1..Len(albums))}
    ELSE {albums, Reverse(albums)}

\* albumsBySource with its four entries in the opposite order
albumsBySource_Reversed(in) ==
    << [albums |-> in.longTerm, source |-> "long_term"],
       [albums |-> in.recentlyPlayed, source |-> "recent_plays"],
       [albums |-> in.savedAlbums, source |-> "saved_albums"],
       [albums |-> in.topTracks, source |-> "top_tracks"] >>

\* albumsBySource
albumsBySource(in) ==
    << [albums |-> in.topTracks, source |-> "top_tracks"],
       [albums |-> in.savedAlbums, source |-> "saved_albums"],
       [albums |-> in.recentlyPlayed, source |-> "recent_plays"],
       [albums |-> in.longTerm, source |-> "long_term"] >>

----------------------------------------------------------------------------
(* route.ts: the frames and the output channel *)

AlbumFrame(id, source) == [kind |-> "album", id |-> id, source |-> source]
DoneFrame == [kind |-> "done", id |-> <<"", 0>>, source |-> ""]
ErrorFrame == [kind |-> "error", id |-> <<"", 0>>, source |-> ""]

\* safeEnqueue with an empty catch block
safeEnqueue_NoFlag(chunk) ==
    IF channel = "open"
    THEN [frames |-> Append(frames, chunk), aborted |-> aborted, thrown |-> thrown]
    ELSE [frames |-> frames, aborted |-> aborted, thrown |-> thrown + 1]

\* safeEnqueue: controller.enqueue throws unless the channel is open, and
\* the catch block sets aborted. Gives the new frames, the new flag and the
\* new count of caught exceptions.
safeEnqueue(chunk) ==
    IF channel = "open"
    THEN [frames |-> Append(frames, chunk), aborted |-> aborted, thrown |-> thrown]
    ELSE [frames |-> frames, aborted |-> TRUE, thrown |-> thrown + 1]

\* sendAlbum: nothing once aborted
sendAlbum(album) ==
    IF aborted THEN [frames |-> frames, aborted |-> aborted, thrown |-> thrown]
    ELSE safeEnqueue(album)

\* try { controller.close() } catch {}: closing a channel that is not open throws
Close == IF channel = "open" THEN "closed" ELSE channel

\* the two counts after that try block, from the counts before it
Closed(n) == IF channel = "open" THEN n + 1 ELSE n
CloseThrown(n) == IF channel = "open" THEN n ELSE n + 1

\* one more checkVinylAvailability call for `album`
Started(calls_, album) ==
    [n \in DOMAIN calls_ \cup {album} |->
        IF n \in DOMAIN calls_
        THEN (IF n = album THEN calls_[n] + 1 ELSE calls_[n])
        ELSE 1]

NoCalls == [n \in {} |-> 0]

\* the loop heads' test with > for >=
CapReached_OffByOne(sent) == sent > maxAlbums

\* the loop heads' test: totalSent >= maxAlbums
CapReached(sent) == sent >= maxAlbums

\* the outer catch block closing the channel without an error frame
Fatal_NoErrorFrame ==
    /\ IF aborted
       THEN UNCHANGED <<frames, aborted, channel, closes, thrown>>
       ELSE /\ UNCHANGED <<frames, aborted>>
            /\ channel' = Close
            /\ closes' = Closed(closes)
            /\ thrown' = CloseThrown(thrown)
    /\ spc' = "failed"
    /\ inflight' = 0
    /\ UNCHANGED <<input, user_albums, stage, actionedAlbumIds, seenAlbumIds,
                   totalSent, srcIdx, queue, got, caught>>
    /\ UNCHANGED resolutions
    /\ UNCHANGED streamOnly

\* the outer catch block: one error frame unless aborted, then close
Fatal ==
    /\ IF aborted
       THEN UNCHANGED <<frames, aborted, channel, closes, thrown>>
       ELSE LET sent == safeEnqueue(ErrorFrame) IN
            /\ frames' = sent.frames
            /\ aborted' = sent.aborted
            /\ channel' = Close
            /\ closes' = Closed(closes)
            /\ thrown' = CloseThrown(sent.thrown)
    /\ spc' = "failed"
    /\ inflight' = 0
    /\ UNCHANGED <<input, user_albums, stage, actionedAlbumIds, seenAlbumIds,
                   totalSent, srcIdx, queue, got, caught>>
    /\ UNCHANGED resolutions
    /\ UNCHANGED streamOnly

----------------------------------------------------------------------------
(* route.ts: start(controller), one action per step between two awaits or
   loop heads *)

\* the time that may pass between the clock reads of cleanupExpiredSkips
\* and of getActiveUserAlbumIds (ms)
StartElapsedMs == {0, 1000}

\* lib/db.ts cleanupExpiredSkips: the rows the DELETE leaves
cleanupExpiredSkips(rows, nowMs) ==
    LET expiryTime == NowSeconds(nowMs) - SKIP_EXPIRY_SECONDS
    IN {r \in rows : ~(r.status = "skipped" /\ r.created_at <= expiryTime)}

\* getActiveUserAlbumIds selecting the rows that are not skips
getActiveUserAlbumIds_NonSkipped(rows, nowMs) ==
    {r.album_id : r \in {k \in rows : k.status # "skipped"}}

\* lib/db.ts getActiveUserAlbumIds
getActiveUserAlbumIds(rows, nowMs) ==
    LET expiryTime == NowSeconds(nowMs) - SKIP_EXPIRY_SECONDS
    IN {r.album_id : r \in {k \in rows : k.status # "skipped"
                                         \/ k.created_at > expiryTime}}

\* cleanupExpiredSkips, then getActiveUserAlbumIds, each reading the clock
start ==
    /\ spc = "init"
    /\ \E elapsedMs \in StartElapsedMs :
          /\ user_albums' = cleanupExpiredSkips(user_albums, now)
          /\ actionedAlbumIds' = getActiveUserAlbumIds(user_albums', now + elapsedMs)
    /\ seenAlbumIds' = {}
    /\ spc' = "fetch"
    /\ UNCHANGED <<input, stage, aborted, channel, frames, totalSent, srcIdx,
                   queue, inflight, got, caught>>
    /\ UNCHANGED <<resolutions, closes, thrown>>
    /\ UNCHANGED streamOnly

\* cleanupExpiredSkips or getActiveUserAlbumIds throws
startFails ==
    /\ spc = "init"
    /\ Fatal

\* Promise.all of the four source fetches resolves
fetchSources ==
    /\ spc = "fetch"
    /\ totalSent' = 0
    /\ srcIdx' = 1
    /\ stage' = "primary"
    /\ spc' = "source"
    /\ UNCHANGED <<input, user_albums, aborted, channel, frames, actionedAlbumIds,
                   seenAlbumIds, queue, inflight, got, caught>>
    /\ UNCHANGED <<resolutions, closes, thrown>>
    /\ UNCHANGED streamOnly

\* one of the four source fetches rejects
fetchSourcesFails ==
    /\ spc = "fetch"
    /\ Fatal

\* head of `for (const [albums, source] of albumsBySource)`
nextSource ==
    /\ spc = "source"
    /\ IF srcIdx > Len(albumsBySource(input)) \/ aborted
       THEN /\ spc' = "collection"
            /\ UNCHANGED queue
       ELSE /\ \E shuffled \in Shuffle(albumsBySource(input)[srcIdx].albums) :
                   queue' = shuffled
            /\ spc' = "albums"
    /\ UNCHANGED <<input, user_albums, stage, aborted, channel, frames,
                   actionedAlbumIds, seenAlbumIds, totalSent, srcIdx, inflight,
                   got, caught>>
    /\ UNCHANGED <<resolutions, closes, thrown>>
    /\ UNCHANGED streamOnly

\* the album loops' head and processAlbum without their tests of aborted
nextAlbum_IgnoresAbort ==
    /\ spc = "albums"
    /\ IF queue = <<>> \/ CapReached(totalSent)
       THEN /\ IF stage = "primary"
               THEN spc' = "source" /\ srcIdx' = srcIdx + 1
               ELSE spc' = "classics" /\ UNCHANGED srcIdx
            /\ queue' = <<>>
            /\ UNCHANGED <<inflight, resolutions>>
       ELSE LET album == Head(queue) IN
            /\ queue' = Tail(queue)
            /\ IF \/ SpId(album) \in actionedAlbumIds
                  \/ SpId(album) \in seenAlbumIds
                  \/ AlbumType(album) # "album"
               THEN UNCHANGED <<spc, inflight, resolutions>>
               ELSE /\ spc' = "resolving"
                    /\ inflight' = album
                    /\ resolutions' = Started(resolutions, album)
            /\ UNCHANGED srcIdx
    /\ UNCHANGED <<input, user_albums, stage, aborted, channel, frames,
                   actionedAlbumIds, seenAlbumIds, totalSent, got, caught>>
    /\ UNCHANGED <<closes, thrown>>
    /\ UNCHANGED streamOnly

\* the album loops calling processAlbum without awaiting it
nextAlbum_NoAwait ==
    /\ spc \in {"albums", "resolving"}
    /\ IF queue = <<>> \/ aborted \/ CapReached(totalSent)
       THEN /\ IF stage = "primary"
               THEN spc' = "source" /\ srcIdx' = srcIdx + 1
               ELSE spc' = "classics" /\ UNCHANGED srcIdx
            /\ queue' = <<>>
            /\ UNCHANGED <<inflight, resolutions>>
       ELSE LET album == Head(queue) IN
            /\ queue' = Tail(queue)
            /\ IF \/ SpId(album) \in actionedAlbumIds
                  \/ SpId(album) \in seenAlbumIds
                  \/ AlbumType(album) # "album"
               THEN UNCHANGED <<spc, inflight, resolutions>>
               ELSE /\ spc' = "resolving"
                    /\ inflight' = album
                    /\ resolutions' = Started(resolutions, album)
            /\ UNCHANGED srcIdx
    /\ UNCHANGED <<input, user_albums, stage, aborted, channel, frames,
                   actionedAlbumIds, seenAlbumIds, totalSent, got, caught>>
    /\ UNCHANGED <<closes, thrown>>
    /\ UNCHANGED streamOnly

\* head of the album loops (`for (const album of shuffled)` and `for (const
\* track of recs.tracks)`), and processAlbum up to its await
nextAlbum ==
    /\ spc = "albums"
    /\ IF queue = <<>> \/ aborted \/ CapReached(totalSent)
       THEN /\ IF stage = "primary"
               THEN spc' = "source" /\ srcIdx' = srcIdx + 1
               ELSE spc' = "classics" /\ UNCHANGED srcIdx
            /\ queue' = <<>>
            /\ UNCHANGED <<inflight, resolutions>>
       ELSE LET album == Head(queue) IN
            /\ queue' = Tail(queue)
            /\ IF \/ SpId(album) \in actionedAlbumIds
                  \/ SpId(album) \in seenAlbumIds
                  \/ AlbumType(album) # "album"
               THEN UNCHANGED <<spc, inflight, resolutions>>
               ELSE /\ spc' = "resolving"
                    /\ inflight' = album
                    /\ resolutions' = Started(resolutions, album)
            /\ UNCHANGED srcIdx
    /\ UNCHANGED <<input, user_albums, stage, aborted, channel, frames,
                   actionedAlbumIds, seenAlbumIds, totalSent, got, caught>>
    /\ UNCHANGED <<closes, thrown>>
    /\ UNCHANGED streamOnly

\* processAlbum without its seenAlbumIds.add(album.id)
resolved_ForgetsSeen(available) ==
    /\ spc = "resolving"
    /\ available \in Availability(inflight)
    /\ IF available
       THEN LET source == IF stage = "primary"
                          THEN albumsBySource(input)[srcIdx].source
                          ELSE "collection_based"
                sent == sendAlbum(AlbumFrame(SpId(inflight), source))
            IN /\ UNCHANGED seenAlbumIds
               /\ frames' = sent.frames
               /\ aborted' = sent.aborted
               /\ thrown' = sent.thrown
               /\ totalSent' = totalSent + 1
       ELSE UNCHANGED <<seenAlbumIds, frames, aborted, thrown, totalSent>>
    /\ inflight' = 0
    /\ spc' = "albums"
    /\ UNCHANGED <<input, user_albums, stage, channel, actionedAlbumIds, srcIdx,
                   queue, got, caught>>
    /\ UNCHANGED <<resolutions, closes>>
    /\ UNCHANGED streamOnly

\* checkVinylAvailability resolves; rest of processAlbum, and `if (sent)
\* totalSent++`
resolved(available) ==
    /\ spc = "resolving"
    /\ available \in Availability(inflight)
    /\ IF available
       THEN LET source == IF stage = "primary"
                          THEN albumsBySource(input)[srcIdx].source
                          ELSE "collection_based"
                sent == sendAlbum(AlbumFrame(SpId(inflight), source))
            IN /\ seenAlbumIds' = seenAlbumIds \cup {SpId(inflight)}
               /\ frames' = sent.frames
               /\ aborted' = sent.aborted
               /\ thrown' = sent.thrown
               /\ totalSent' = totalSent + 1
       ELSE UNCHANGED <<seenAlbumIds, frames, aborted, thrown, totalSent>>
    /\ inflight' = 0
    /\ spc' = "albums"
    /\ UNCHANGED <<input, user_albums, stage, channel, actionedAlbumIds, srcIdx,
                   queue, got, caught>>
    /\ UNCHANGED <<resolutions, closes>>
    /\ UNCHANGED streamOnly

\* checkVinylAvailability rejects (its cache read threw): fatal in the source
\* loops, caught by the collection stage's own try block
resolveThrows ==
    /\ spc = "resolving"
    /\ IF stage = "primary"
       THEN Fatal
       ELSE /\ spc' = "classics"
            /\ caught' = caught \cup {"checkVinylAvailability"}
            /\ inflight' = 0
            /\ queue' = <<>>
            /\ UNCHANGED <<input, user_albums, stage, aborted, channel, frames,
                           actionedAlbumIds, seenAlbumIds, totalSent, srcIdx, got>>
            /\ UNCHANGED <<resolutions, closes, thrown>>
            /\ UNCHANGED streamOnly

\* getUserAlbumsByStatus twice, collectionArtists, and the stage's condition
collectionStage ==
    /\ spc = "collection"
    /\ LET allArtists == {r.artist_name :
                             r \in {u \in user_albums :
                                       /\ u.status \in {"owned", "wishlist"}
                                       /\ u.artist_name # NoArtist}}
       IN IF ~aborted /\ allArtists # {} /\ totalSent < maxAlbums
          THEN spc' = "recs_wait"
          ELSE spc' = "classics"
    /\ UNCHANGED <<input, user_albums, stage, aborted, channel, frames,
                   actionedAlbumIds, seenAlbumIds, totalSent, srcIdx, queue,
                   inflight, got, caught>>
    /\ UNCHANGED <<resolutions, closes, thrown>>
    /\ UNCHANGED streamOnly

\* getUserAlbumsByStatus throws: outside the stage's try block
collectionStageFails ==
    /\ spc = "collection"
    /\ Fatal

\* getRecommendations resolves with the tracks whose albums are `albums`
getRecommendationsReturns ==
    /\ spc = "recs_wait"
    /\ queue' = input.recs
    /\ got' = [got EXCEPT !.recs = input.recs]
    /\ stage' = "collection"
    /\ spc' = "albums"
    /\ UNCHANGED <<input, user_albums, aborted, channel, frames, actionedAlbumIds,
                   seenAlbumIds, totalSent, srcIdx, inflight, caught>>
    /\ UNCHANGED <<resolutions, closes, thrown>>
    /\ UNCHANGED streamOnly

\* getRecommendations rejects: logged
getRecommendationsFails ==
    /\ spc = "recs_wait"
    /\ spc' = "classics"
    /\ caught' = caught \cup {"getRecommendations"}
    /\ UNCHANGED <<input, user_albums, stage, aborted, channel, frames,
                   actionedAlbumIds, seenAlbumIds, totalSent, srcIdx, queue,
                   inflight, got>>
    /\ UNCHANGED <<resolutions, closes, thrown>>
    /\ UNCHANGED streamOnly

\* `if (!aborted && totalSent < maxAlbums)` of stage 3
classicsStage ==
    /\ spc = "classics"
    /\ IF ~aborted /\ totalSent < maxAlbums
       THEN spc' = "classics_wait"
       ELSE spc' = "finish"
    /\ stage' = "classics"
    /\ UNCHANGED <<input, user_albums, aborted, channel, frames, actionedAlbumIds,
                   seenAlbumIds, totalSent, srcIdx, queue, inflight, got, caught>>
    /\ UNCHANGED <<resolutions, closes, thrown>>
    /\ UNCHANGED streamOnly

\* getMostCollectedVinyl resolves: with the releases, or with [] after it
\* caught an error of its own
getMostCollectedVinylReturns(classics) ==
    /\ spc = "classics_wait"
    /\ classics \in {input.classics, <<>>}
    /\ queue' = classics
    /\ got' = [got EXCEPT !.classics = classics]
    /\ spc' = "classic_loop"
    /\ UNCHANGED <<input, user_albums, stage, aborted, channel, frames,
                   actionedAlbumIds, seenAlbumIds, totalSent, srcIdx, inflight,
                   caught>>
    /\ UNCHANGED <<resolutions, closes, thrown>>
    /\ UNCHANGED streamOnly

\* one iteration of `for (const classic of classics)`
nextClassic ==
    /\ spc = "classic_loop"
    /\ IF queue = <<>> \/ aborted \/ CapReached(totalSent)
       THEN /\ spc' = "finish"
            /\ queue' = <<>>
            /\ UNCHANGED <<seenAlbumIds, frames, aborted, thrown, totalSent>>
       ELSE LET classic == Head(queue)
                fakeId == FakeId(classic.id)
                sent == sendAlbum(AlbumFrame(fakeId, "classic"))
            IN /\ queue' = Tail(queue)
               /\ IF /\ classic.titled
                     /\ fakeId \notin actionedAlbumIds
                     /\ fakeId \notin seenAlbumIds
                  THEN /\ seenAlbumIds' = seenAlbumIds \cup {fakeId}
                       /\ frames' = sent.frames
                       /\ aborted' = sent.aborted
                       /\ thrown' = sent.thrown
                       /\ totalSent' = totalSent + 1
                  ELSE UNCHANGED <<seenAlbumIds, frames, aborted, thrown, totalSent>>
               /\ UNCHANGED spc
    /\ UNCHANGED <<input, user_albums, stage, channel, actionedAlbumIds, srcIdx,
                   inflight, got, caught>>
    /\ UNCHANGED <<resolutions, closes>>
    /\ UNCHANGED streamOnly

\* sendDone() without its controller.close()
sendDone_NoClose ==
    /\ spc = "finish"
    /\ IF aborted
       THEN UNCHANGED <<frames, aborted, thrown>>
       ELSE LET sent == safeEnqueue(DoneFrame) IN
            /\ frames' = sent.frames
            /\ aborted' = sent.aborted
            /\ thrown' = sent.thrown
    /\ spc' = "done"
    /\ UNCHANGED <<input, user_albums, stage, channel, actionedAlbumIds,
                   seenAlbumIds, totalSent, srcIdx, queue, inflight, got, caught>>
    /\ UNCHANGED <<resolutions, closes>>
    /\ UNCHANGED streamOnly

\* sendDone(), the last statement of the try block
sendDone ==
    /\ spc = "finish"
    /\ IF aborted
       THEN UNCHANGED <<frames, aborted, channel, closes, thrown>>
       ELSE LET sent == safeEnqueue(DoneFrame) IN
            /\ frames' = sent.frames
            /\ aborted' = sent.aborted
            /\ channel' = Close
            /\ closes' = Closed(closes)
            /\ thrown' = CloseThrown(sent.thrown)
    /\ spc' = "done"
    /\ UNCHANGED <<input, user_albums, stage, actionedAlbumIds, seenAlbumIds,
                   totalSent, srcIdx, queue, inflight, got, caught>>
    /\ UNCHANGED resolutions
    /\ UNCHANGED streamOnly

\* the consumer cancels the stream: cancel() runs
cancel ==
    /\ channel = "open"
    /\ spc \notin {"done", "failed"}
    /\ aborted' = TRUE
    /\ channel' = "cancelled"
    /\ UNCHANGED <<input, user_albums, spc, stage, frames, actionedAlbumIds,
                   seenAlbumIds, totalSent, srcIdx, queue, inflight, got, caught>>
    /\ UNCHANGED <<resolutions, closes, thrown>>
    /\ UNCHANGED streamOnly

\* the consumer is gone and cancel() has not run: enqueue and close will throw
channelBreaks ==
    /\ channel = "open"
    /\ spc \notin {"done", "failed"}
    /\ channel' = "broken"
    /\ UNCHANGED <<input, user_albums, spc, stage, aborted, frames,
                   actionedAlbumIds, seenAlbumIds, totalSent, srcIdx, queue,
                   inflight, got, caught>>
    /\ UNCHANGED <<resolutions, closes, thrown>>
    /\ UNCHANGED streamOnly

\* the calls the start routine has issued and not yet seen settle, by its
\* position: Promise.all of the four source fetches, or the one call awaited
Outstanding ==
    CASE spc = "fetch" -> {"getTopTracks(medium_term)", "getSavedAlbums",
                           "getRecentlyPlayed", "getTopTracks(long_term)"}
      [] spc = "resolving" -> {"checkVinylAvailability"}
      [] spc = "recs_wait" -> {"getRecommendations"}
      [] spc = "classics_wait" -> {"getMostCollectedVinyl"}
      [] OTHER -> {}

StreamIdle ==
    /\ input = NoInput
    /\ user_albums = {}
    /\ spc = "init"
    /\ stage = "primary"
    /\ aborted = FALSE
    /\ channel = "open"
    /\ frames = <<>>
    /\ actionedAlbumIds = {}
    /\ seenAlbumIds = {}
    /\ totalSent = 0
    /\ srcIdx = 0
    /\ queue = <<>>
    /\ inflight = 0
    /\ got = [recs |-> <<>>, classics |-> <<>>]
    /\ caught = {}
    /\ resolutions = NoCalls
    /\ closes = 0
    /\ thrown = 0

----------------------------------------------------------------------------
(* lib/rate-limit.ts: class RateLimiter *)

\* new RateLimiter(3, 60_000) of the tests up to this many requests
MaxRequestsCfg == 3

\* the window of the three configured limiters and of the tests (ms)
WindowMs == 60000

\* the instants (ms) at which the limiter is called: those of the tests
\* (0, +10 s, +30 s, the window's end and 1 ms past it)
Instants == {0, 10000, 30000, WindowMs, WindowMs + 1}

Keys == {"ip1", "ip2"}

\* this.windows.get(key) ?? []
Timestamps(ws, key) == IF key \in DOMAIN ws THEN ws[key] ELSE <<>>

\* timestamps.filter((t) => t > windowStart)
Filter(timestamps, windowStart) ==
    SelectSeq(timestamps, LAMBDA t : t > windowStart)

\* this.windows.set(key, timestamps)
MapSet(ws, key, timestamps) ==
    [k \in DOMAIN ws \cup {key} |-> IF k = key THEN timestamps ELSE ws[k]]

NoResult == [key |-> "", at |-> 0, allowed |-> FALSE, remaining |-> 0, resetMs |-> 0]

\* the test of line 46 with > for >=
IsBlocked_OffByOne(timestamps, maxRequests) == Len(timestamps) > maxRequests

\* timestamps.length >= this.maxRequests
IsBlocked(timestamps, maxRequests) == Len(timestamps) >= maxRequests

\* the blocked branch returning the time until the newest timestamp expires
BlockedResetMs_Newest(timestamps, windowMs, nowMs) ==
    Max(timestamps[Len(timestamps)] + windowMs - nowMs, 0)

\* oldestInWindow + this.windowMs - now, and Math.max(resetMs, 0)
BlockedResetMs(timestamps, windowMs, nowMs) ==
    Max(timestamps[1] + windowMs - nowMs, 0)

\* check(key) recording the request in its blocked branch too
Check_PushAlways(ws, cfg, key, nowMs) ==
    LET windowStart == nowMs - cfg.windowMs
        timestamps == Filter(Timestamps(ws, key), windowStart)
        pushed == Append(timestamps, nowMs)
    IN IF IsBlocked(timestamps, cfg.maxRequests)
       THEN [windows |-> MapSet(ws, key, pushed),
             allowed |-> FALSE,
             remaining |-> 0,
             resetMs |-> BlockedResetMs(timestamps, cfg.windowMs, nowMs)]
       ELSE [windows |-> MapSet(ws, key, pushed),
             allowed |-> TRUE,
             remaining |-> cfg.maxRequests - Len(pushed),
             resetMs |-> pushed[1] + cfg.windowMs - nowMs]

\* what check(key) does to the map and what it returns, at time nowMs
Check(ws, cfg, key, nowMs) ==
    LET windowStart == nowMs - cfg.windowMs
        timestamps == Filter(Timestamps(ws, key), windowStart)
    IN IF IsBlocked(timestamps, cfg.maxRequests)
       THEN [windows |-> MapSet(ws, key, timestamps),
             allowed |-> FALSE,
             remaining |-> 0,
             resetMs |-> BlockedResetMs(timestamps, cfg.windowMs, nowMs)]
       ELSE LET pushed == Append(timestamps, nowMs) IN
            [windows |-> MapSet(ws, key, pushed),
             allowed |-> TRUE,
             remaining |-> cfg.maxRequests - Len(pushed),
             resetMs |-> pushed[1] + cfg.windowMs - nowMs]

\* cleanup() without its test of active.length: every key is kept
Cleanup_KeepsKeys(ws, cfg, nowMs) ==
    [k \in DOMAIN ws |-> Filter(ws[k], nowMs - cfg.windowMs)]

\* what cleanup() leaves of the map at time nowMs
Cleanup(ws, cfg, nowMs) ==
    LET windowStart == nowMs - cfg.windowMs
        kept == {k \in DOMAIN ws : Len(Filter(ws[k], windowStart)) # 0}
    IN [k \in kept |-> Filter(ws[k], windowStart)]

\* the Map of a fresh or reset limiter
EmptyMap == [k \in {} |-> <<>>]

NoBlock == [at |-> 0, resetMs |-> 0]

\* check(key)
check(key) ==
    /\ LET r == Check(windows, limiter, key, clock) IN
       /\ windows' = r.windows
       /\ lres' = [key |-> key, at |-> clock, allowed |-> r.allowed,
                   remaining |-> r.remaining, resetMs |-> r.resetMs]
       /\ allowedLog' = IF r.allowed
                        THEN [allowedLog EXCEPT ![key] = Append(@, clock)]
                        ELSE allowedLog
       /\ lastBlocked' = IF r.allowed
                         THEN [lastBlocked EXCEPT ![key] = NoBlock]
                         ELSE [lastBlocked EXCEPT
                                 ![key] = [at |-> clock, resetMs |-> r.resetMs]]
    /\ unswept' = Check(unswept, limiter, key, clock).windows
    /\ UNCHANGED <<limiter, clock>>
    /\ UNCHANGED limiterOnly

\* cleanup(), called directly or by the 60 s timer
cleanup ==
    /\ windows' = Cleanup(windows, limiter, clock)
    /\ windows' # windows
    /\ UNCHANGED <<limiter, clock, lres, allowedLog, lastBlocked, unswept>>
    /\ UNCHANGED limiterOnly

\* reset()
reset ==
    /\ windows # EmptyMap
    /\ windows' = EmptyMap
    /\ unswept' = EmptyMap
    /\ allowedLog' = [k \in Keys |-> <<>>]
    /\ lastBlocked' = [k \in Keys |-> NoBlock]
    /\ UNCHANGED <<limiter, clock, lres>>
    /\ UNCHANGED limiterOnly

\* time passes; the observers forget what has left the window
Advance(instant) ==
    /\ instant > clock
    /\ clock' = instant
    /\ allowedLog' = [k \in Keys |->
                         SelectSeq(allowedLog[k],
                                   LAMBDA t : t > clock' - limiter.windowMs)]
    /\ lastBlocked' = [k \in Keys |->
                          IF lastBlocked[k].at + lastBlocked[k].resetMs < clock'
                          THEN NoBlock ELSE lastBlocked[k]]
    /\ UNCHANGED <<limiter, windows, lres, unswept>>
    /\ UNCHANGED limiterOnly

LimiterIdle ==
    /\ limiter = [maxRequests |-> MaxRequestsCfg, windowMs |-> WindowMs]
    /\ windows = EmptyMap
    /\ clock = 0
    /\ lres = NoResult
    /\ allowedLog = [k \in Keys |-> <<>>]
    /\ lastBlocked = [k \in Keys |-> NoBlock]
    /\ unswept = EmptyMap

----------------------------------------------------------------------------
(* app/api/recommendations/stream/route.ts: the handler GET, and the
   limiter lib/rate-limit.ts configures for it *)

\* streamLimiter = new RateLimiter(5, 60_000)
StreamMaxRequests == 5

streamLimiter == [maxRequests |-> StreamMaxRequests, windowMs |-> WindowMs]

\* requests of one client per behaviour
MaxServed == 6

\* GET(): getAuthenticatedUser, then 401 or the stream; `key` is the address
\* the request comes from, which the handler does not look at
GET(key, authed) ==
    /\ served[key] < MaxServed
    /\ IF authed
       THEN /\ served' = [served EXCEPT ![key] = @ + 1]
            /\ lastStatus' = 200
       ELSE /\ UNCHANGED served
            /\ lastStatus' = 401
    /\ UNCHANGED limiterVars
    /\ UNCHANGED endpointOnly

EndpointIdle ==
    /\ served = [k \in Keys |-> 0]
    /\ lastStatus = 0

----------------------------------------------------------------------------
(* lib/discogs.ts checkVinylAvailability run by several callers at once (the
   streams of concurrent requests, the batches of
   batchCheckVinylAvailability): the calls interleave at their awaits, and
   each better-sqlite3 statement is synchronous *)

\* callers that may be inside checkVinylAvailability at the same time
Callers == {"c1", "c2"}

\* the instants of the callers' clock (ms): two in one second, the next
\* second, and the same a TTL later
RaceInstants ==
    {400, 1000, CACHE_TTL_SECONDS * 1000 + 400, CACHE_TTL_SECONDS * 1000 + 1000}

\* the (artist, album) arguments of the concurrent calls: two spellings of
\* one key, and another key
RacePairs ==
    { [artist |-> <<"P", "f">>, album |-> <<"W">>],
      [artist |-> <<"p", "f">>, album |-> <<"w">>],
      [artist |-> <<"p", "f", " ">>, album |-> <<"w">>] }

\* pc: "idle" | "searching"; readAt: the second of the cache read that missed
NoCall == [pc |-> "idle", artist |-> <<>>, album |-> <<>>, readAt |-> 0]

\* how the latest search of a caller ended. by: the caller; course: "stored"
\* | "write_threw" | "threw" (the search threw, nothing was written); row:
\* the row bound to the statement; before: checked_at of the row it replaced
\* (-1: none); readAt: the second of the caller's cache read; returned: what
\* the call returned
NoWrite ==
    [by |-> "", course |-> "none", row |-> CacheRow(<<>>, <<>>, FALSE, Null, 0),
     before |-> -1, readAt |-> 0, returned |-> Unavailable]

\* checkVinylAvailability up to its await of the search, by caller p
raceCheck(p, pair) ==
    /\ procs[p].pc = "idle"
    /\ LET cached == getCachedVinylStatus(vinyl_cache, pair.artist, pair.album, now)
       IN IF cached.found
          THEN UNCHANGED procs
          ELSE procs' = [procs EXCEPT ![p] =
                            [pc |-> "searching", artist |-> pair.artist,
                             album |-> pair.album, readAt |-> NowSeconds(now)]]
    /\ UNCHANGED <<now, ticks, vinyl_cache, lastWrite, bulk>>
    /\ UNCHANGED raceOnly

\* searchVinylRelease resolved for caller p: setCachedVinylStatus, return
raceSearchReturns(p, releases) ==
    /\ procs[p].pc = "searching"
    /\ LET available == Len(releases) > 0
           discogsUrl == IF available THEN DiscogsUrl(releases[1]) ELSE Null
           row == CacheRow(procs[p].artist, procs[p].album, available,
                           discogsUrl, now)
           old == Conflicting(vinyl_cache, row)
           next == setCachedVinylStatus(vinyl_cache, procs[p].artist,
                                        procs[p].album, available, discogsUrl, now)
       IN /\ vinyl_cache' = next
          /\ lastWrite' =
                [by |-> p,
                 course |-> IF row \in next THEN "stored" ELSE "write_threw",
                 row |-> row,
                 before |-> IF old = {} THEN -1
                            ELSE (CHOOSE r \in old : TRUE).checked_at,
                 readAt |-> procs[p].readAt,
                 returned |-> IF row \in next
                              THEN [available |-> available, discogsUrl |-> discogsUrl]
                              ELSE Unavailable]
    /\ procs' = [procs EXCEPT ![p] = NoCall]
    /\ UNCHANGED <<now, ticks, bulk>>
    /\ UNCHANGED raceOnly

\* searchVinylRelease threw for caller p: logged, "unavailable" returned
raceSearchThrows(p) ==
    /\ procs[p].pc = "searching"
    /\ procs' = [procs EXCEPT ![p] = NoCall]
    /\ lastWrite' = [NoWrite EXCEPT !.by = p, !.readAt = procs[p].readAt,
                                    !.course = "threw"]
    /\ UNCHANGED <<now, ticks, vinyl_cache, bulk>>
    /\ UNCHANGED raceOnly

\* time passes for the concurrent callers
raceAdvance(instant) ==
    /\ instant > now
    /\ now' = instant
    /\ UNCHANGED <<ticks, vinyl_cache, procs, lastWrite, bulk>>
    /\ UNCHANGED raceOnly

----------------------------------------------------------------------------
(* lib/db.ts: getBulkCachedVinylStatus *)

\* `${artistLower}|${albumLower}`
BulkKey(artist, album) == ToLowerCase(artist) \o <<"|">> \o ToLowerCase(album)

\* the for loop over the pairs: results.set(key, ...) for each pair with a row
RECURSIVE BulkLoop(_, _, _, _)
BulkLoop(cache, albums, nowMs, results) ==
    IF albums = <<>> THEN results
    ELSE LET pair == Head(albums)
             cached == getCachedVinylStatus(cache, pair.artist, pair.album, nowMs)
         IN BulkLoop(cache, Tail(albums), nowMs,
                     IF cached.found
                     THEN MapSet(results, BulkKey(pair.artist, pair.album),
                                 [hasVinyl |-> cached.hasVinyl,
                                  discogsUrl |-> cached.discogsUrl])
                     ELSE results)

\* the Map the function returns, as a function on its keys
getBulkCachedVinylStatus(cache, albums, nowMs) ==
    BulkLoop(cache, albums, nowMs, << >>)

\* the instant of the bulk lookups (ms): five seconds after one TTL
BulkNowMs == (CACHE_TTL_SECONDS + 5) * 1000

\* pairs a caller may ask for: two spellings of one pair, two pairs whose
\* names hold the separator, and a pair that is never stored
BulkPairs ==
    { [artist |-> <<"P">>, album |-> <<"W">>],
      [artist |-> <<"p">>, album |-> <<"w">>],
      [artist |-> <<"p", "|", "f">>, album |-> <<"w">>],
      [artist |-> <<"p">>, album |-> <<"f", "|", "w">>],
      [artist |-> <<"x">>, album |-> <<"w">>] }

\* lists of at most this many pairs are looked up
MaxBulkLen == 2

BulkInputs ==
    UNION {[1..n -> BulkPairs] : n \in 0..MaxBulkLen}

\* the tables the lookups run on: the first pair's row fresh, expired (7 days
\* old to the second) or absent, and each of the two pairs with a separator
\* fresh or absent
BulkTables ==
    { rows1 \cup rows2 \cup rows3 :
        rows1 \in { {}, {CacheRow(<<"p">>, <<"w">>, TRUE, DiscogsUrl("/release/1"),
                                  6000)},
                        {CacheRow(<<"p">>, <<"w">>, TRUE, DiscogsUrl("/release/1"),
                                  5000)} },
        rows2 \in { {}, {CacheRow(<<"p", "|", "f">>, <<"w">>, FALSE, Null, 6000)} },
        rows3 \in { {}, {CacheRow(<<"p">>, <<"f", "|", "w">>, TRUE,
                                  DiscogsUrl("/release/2"), 7000)} } }

\* getBulkCachedVinylStatus(albums)
bulkLookup(albums) ==
    /\ bulk' = [albums |-> albums, called |-> TRUE,
                results |-> getBulkCachedVinylStatus(vinyl_cache, albums, now)]
    /\ UNCHANGED <<now, ticks, vinyl_cache, procs, lastWrite>>
    /\ UNCHANGED raceOnly

NoBulk == [albums |-> <<>>, called |-> FALSE, results |-> <<>>]

RaceIdle ==
    /\ procs = [p \in Callers |-> NoCall]
    /\ lastWrite = NoWrite
    /\ bulk = NoBulk

----------------------------------------------------------------------------
(* lib/discogs.ts: discogsFetch and memCache, with concurrent callers *)

\* MEM_CACHE_TTL = 1000 * 60 * 5
MEM_CACHE_TTL == 1000 * 60 * 5

\* outbound requests per endpoint and behaviour
MaxOutbound == 2

Fetchers == {"f1", "f2"}
Endpoints == {"/database/search?q=a", "/database/search?q=b"}

\* the instants of the client's clock (ms), on both sides of the TTL of an
\* entry stored at 0 or at 1000
MemInstants == {1000, MEM_CACHE_TTL, MEM_CACHE_TTL + 999, MEM_CACHE_TTL + 1000}

\* a response body is named by the request that fetched it: [endpoint, n] is
\* the body of the n-th request sent for the endpoint
NoData == [endpoint |-> "", n |-> 0]

\* pc: "idle" | "waiting"; req: the request the call waits for; got: what the
\* latest call returned; how: "none" | "cached" | "fetched" | "threw"
NoFetch == [pc |-> "idle", endpoint |-> "", req |-> 0, got |-> NoData,
            how |-> "none"]

\* cached && Date.now() - cached.timestamp < MEM_CACHE_TTL
MemFresh(cache, endpoint, nowMs) ==
    /\ endpoint \in DOMAIN cache
    /\ nowMs - cache[endpoint].timestamp < MEM_CACHE_TTL

\* memCache.set(cacheKey, {data, timestamp})
MemSet(cache, endpoint, entry) ==
    [e \in DOMAIN cache \cup {endpoint} |-> IF e = endpoint THEN entry ELSE cache[e]]

\* discogsFetch(endpoint) by caller f, up to its await of fetchWithRetry
memDiscogsFetch(f, endpoint) ==
    /\ fetchers[f].pc = "idle"
    /\ IF MemFresh(memCache, endpoint, memNow)
       THEN /\ fetchers' = [fetchers EXCEPT ![f] =
                               [pc |-> "idle", endpoint |-> endpoint, req |-> 0,
                                got |-> memCache[endpoint].data, how |-> "cached"]]
            /\ UNCHANGED outbound
       ELSE /\ outbound[endpoint] < MaxOutbound
            /\ outbound' = [outbound EXCEPT ![endpoint] = @ + 1]
            /\ fetchers' = [fetchers EXCEPT ![f] =
                               [pc |-> "waiting", endpoint |-> endpoint,
                                req |-> outbound[endpoint] + 1, got |-> NoData,
                                how |-> "none"]]
    /\ UNCHANGED <<memCache, memNow>>
    /\ UNCHANGED memOnly

\* fetchWithRetry resolved with an ok response: the body is cached and returned
memResponse(f) ==
    /\ fetchers[f].pc = "waiting"
    /\ LET data == [endpoint |-> fetchers[f].endpoint, n |-> fetchers[f].req] IN
       /\ memCache' = MemSet(memCache, fetchers[f].endpoint,
                             [data |-> data, timestamp |-> memNow])
       /\ fetchers' = [fetchers EXCEPT ![f] =
                          [@ EXCEPT !.pc = "idle", !.got = data, !.how = "fetched"]]
    /\ UNCHANGED <<memNow, outbound>>
    /\ UNCHANGED memOnly

\* the response is a 429 or not ok, or fetchWithRetry rejected: discogsFetch
\* throws and caches nothing
memFails(f) ==
    /\ fetchers[f].pc = "waiting"
    /\ fetchers' = [fetchers EXCEPT ![f] = [@ EXCEPT !.pc = "idle", !.how = "threw"]]
    /\ UNCHANGED <<memCache, memNow, outbound>>
    /\ UNCHANGED memOnly

\* time passes for the catalog client
memAdvance(instant) ==
    /\ instant > memNow
    /\ memNow' = instant
    /\ UNCHANGED <<memCache, fetchers, outbound>>
    /\ UNCHANGED memOnly

MemIdle ==
    /\ memCache = [e \in {} |-> NoData]
    /\ memNow = 0
    /\ fetchers = [f \in Fetchers |-> NoFetch]
    /\ outbound = [e \in Endpoints |-> 0]

----------------------------------------------------------------------------
(* The retry specification *)

RetryIdle ==
    /\ client = "none"
    /\ attempt = 0
    /\ calls = 0
    /\ sleeps = <<>>
    /\ warns = 0
    /\ lastRetry = NoRetry
    /\ response = NoResponse
    /\ seen = {}
    /\ rpc = "idle"
    /\ outcome = "none"

InitRetry ==
    /\ retryDefaults \in [maxRetries : 0..MaxRetriesCfg, baseDelayMs : BaseDelays]
    /\ RetryIdle
    /\ RaceIdle
    /\ MemIdle
    /\ CacheIdle
    /\ StreamIdle
    /\ LimiterIdle
    /\ EndpointIdle

NextRetry ==
    \/ discogsFetch
    \/ \E resp \in Responses : fetchWithRetry(resp)
    \/ fetchWithRetryRejects
    \/ spotifyFetchBegin
    \/ \E resp \in Responses : spotifyFetch(resp)
    \/ spotifyFetchRejects

InitCache ==
    /\ retryDefaults = [maxRetries |-> 3, baseDelayMs |-> 1000]
    /\ RetryIdle
    /\ RaceIdle
    /\ MemIdle
    /\ CacheIdle
    /\ StreamIdle
    /\ LimiterIdle
    /\ EndpointIdle

NextCache ==
    \/ \E artist \in ArtistNames, album \in AlbumNames :
            checkVinylAvailability(artist, album)
    \/ \E releases \in Releases : searchVinylReleaseReturns(releases)
    \/ searchVinylReleaseThrows
    \/ \E artist \in ArtistNames, album \in AlbumNames :
            getCachedVinylStatusThrows(artist, album)
    \/ setCachedVinylStatusThrows
    \/ \E stepMs \in TickStepsMs : Tick(stepMs)

InitStream ==
    /\ retryDefaults = [maxRetries |-> 3, baseDelayMs |-> 1000]
    /\ RetryIdle
    /\ RaceIdle
    /\ MemIdle
    /\ now = StreamNowMs
    /\ ticks = 0
    /\ vinyl_cache = {}
    /\ cpc = "idle"
    /\ lookup = NoLookup
    /\ result = Unavailable
    /\ input \in Inputs
    /\ user_albums \in UserAlbumTables
    /\ spc = "init"
    /\ stage = "primary"
    /\ aborted = FALSE
    /\ channel = "open"
    /\ frames = <<>>
    /\ actionedAlbumIds = {}
    /\ seenAlbumIds = {}
    /\ totalSent = 0
    /\ srcIdx = 0
    /\ queue = <<>>
    /\ inflight = 0
    /\ got = [recs |-> <<>>, classics |-> <<>>]
    /\ caught = {}
    /\ resolutions = NoCalls
    /\ closes = 0
    /\ thrown = 0
    /\ LimiterIdle
    /\ EndpointIdle

NextStream ==
    \/ start
    \/ startFails
    \/ fetchSources
    \/ fetchSourcesFails
    \/ nextSource
    \/ nextAlbum
    \/ \E available \in BOOLEAN : resolved(available)
    \/ resolveThrows
    \/ collectionStage
    \/ collectionStageFails
    \/ getRecommendationsReturns
    \/ getRecommendationsFails
    \/ classicsStage
    \/ \E classics \in ClassicLists : getMostCollectedVinylReturns(classics)
    \/ nextClassic
    \/ sendDone
    \/ cancel
    \/ channelBreaks

InitLimiter ==
    /\ limiter \in [maxRequests : 1..MaxRequestsCfg, windowMs : {WindowMs}]
    /\ windows = EmptyMap
    /\ clock = 0
    /\ lres = NoResult
    /\ allowedLog = [k \in Keys |-> <<>>]
    /\ lastBlocked = [k \in Keys |-> NoBlock]
    /\ unswept = EmptyMap
    /\ retryDefaults = [maxRetries |-> 3, baseDelayMs |-> 1000]
    /\ RetryIdle
    /\ RaceIdle
    /\ MemIdle
    /\ CacheIdle
    /\ StreamIdle
    /\ EndpointIdle

NextLimiter ==
    \/ \E key \in Keys : check(key)
    \/ cleanup
    \/ reset
    \/ \E instant \in Instants : Advance(instant)

InitEndpoint ==
    /\ limiter = streamLimiter
    /\ windows = EmptyMap
    /\ clock = 0
    /\ lres = NoResult
    /\ allowedLog = [k \in Keys |-> <<>>]
    /\ lastBlocked = [k \in Keys |-> NoBlock]
    /\ unswept = EmptyMap
    /\ EndpointIdle
    /\ retryDefaults = [maxRetries |-> 3, baseDelayMs |-> 1000]
    /\ RetryIdle
    /\ RaceIdle
    /\ MemIdle
    /\ CacheIdle
    /\ StreamIdle

NextEndpoint ==
    \/ \E key \in Keys, authed \in BOOLEAN : GET(key, authed)
    \/ \E instant \in Instants : Advance(instant)

InitRace ==
    /\ retryDefaults = [maxRetries |-> 3, baseDelayMs |-> 1000]
    /\ RetryIdle
    /\ RaceIdle
    /\ MemIdle
    /\ CacheIdle
    /\ StreamIdle
    /\ LimiterIdle
    /\ EndpointIdle

NextRace ==
    \/ \E p \in Callers, pair \in RacePairs : raceCheck(p, pair)
    \/ \E p \in Callers, releases \in Releases : raceSearchReturns(p, releases)
    \/ \E p \in Callers : raceSearchThrows(p)
    \/ \E instant \in RaceInstants : raceAdvance(instant)

InitMem ==
    /\ retryDefaults = [maxRetries |-> 3, baseDelayMs |-> 1000]
    /\ RetryIdle
    /\ RaceIdle
    /\ MemIdle
    /\ CacheIdle
    /\ StreamIdle
    /\ LimiterIdle
    /\ EndpointIdle

NextMem ==
    \/ \E f \in Fetchers, endpoint \in Endpoints : memDiscogsFetch(f, endpoint)
    \/ \E f \in Fetchers : memResponse(f)
    \/ \E f \in Fetchers : memFails(f)
    \/ \E instant \in MemInstants : memAdvance(instant)

InitBulk ==
    /\ retryDefaults = [maxRetries |-> 3, baseDelayMs |-> 1000]
    /\ RetryIdle
    /\ RaceIdle
    /\ MemIdle
    /\ now = BulkNowMs
    /\ ticks = 0
    /\ vinyl_cache \in BulkTables
    /\ cpc = "idle"
    /\ lookup = NoLookup
    /\ result = Unavailable
    /\ StreamIdle
    /\ LimiterIdle
    /\ EndpointIdle

NextBulk == \E albums \in BulkInputs : bulkLookup(albums)

vars == <<retryVars, cacheVars, streamVars, limiterVars, endpointVars, raceVars,
          memVars>>

SpecRetry == InitRetry /\ [][NextRetry]_vars

SpecRace == InitRace /\ [][NextRace]_vars

SpecMem == InitMem /\ [][NextMem]_vars

SpecBulk == InitBulk /\ [][NextBulk]_vars

SpecCache == InitCache /\ [][NextCache]_vars

SpecStream == InitStream /\ [][NextStream]_vars

SpecLimiter == InitLimiter /\ [][NextLimiter]_vars

SpecEndpoint == InitEndpoint /\ [][NextEndpoint]_vars

\* the steps of start(controller) itself, without the consumer's
StartRoutine ==
    \/ start
    \/ startFails
    \/ fetchSources
    \/ fetchSourcesFails
    \/ nextSource
    \/ nextAlbum
    \/ \E available \in BOOLEAN : resolved(available)
    \/ resolveThrows
    \/ collectionStage
    \/ collectionStageFails
    \/ getRecommendationsReturns
    \/ getRecommendationsFails
    \/ classicsStage
    \/ \E classics \in ClassicLists : getMostCollectedVinylReturns(classics)
    \/ nextClassic
    \/ sendDone

\* every call start() awaits settles, and start() then runs on
SpecStreamFair == SpecStream /\ WF_vars(StartRoutine)

\* the steps of start(controller) that need no answer from the catalog: its
\* own statements, the synchronous database calls, and the settling of the
\* Spotify calls, each attempt of which carries AbortSignal.timeout
\* (spotify.ts:56, 80, 127). The catalog calls (checkVinylAvailability,
\* getMostCollectedVinyl) go through fetchWithRetry, whose fetch() has no
\* signal and no timeout.
BoundedSteps ==
    \/ start
    \/ startFails
    \/ fetchSources
    \/ fetchSourcesFails
    \/ nextSource
    \/ nextAlbum
    \/ collectionStage
    \/ collectionStageFails
    \/ getRecommendationsReturns
    \/ getRecommendationsFails
    \/ classicsStage
    \/ nextClassic
    \/ sendDone

\* start() runs on whenever it can; the catalog may never answer
SpecStreamBounded == SpecStream /\ WF_vars(BoundedSteps)

----------------------------------------------------------------------------
(* Properties of the retrying clients, checked under SpecRetry *)

\* the latest fetch() outcome was a response with status 400..499 other than 429
PermanentFailure(r) ==
    r.kind = "http" /\ r.status >= 400 /\ r.status <= 499 /\ r.status # 429

\* C1: a call in which every attempt answered 429 or 5xx ends after exactly
\* 1 + maxRetries requests (maxRetries backoffs) with the classified error -
\* Discogs: "rate limit" when the last answer was 429, "Discogs API error"
\* when it was 5xx; Spotify: "Spotify API error" - and no call ever issues
\* more than 1 + maxRetries requests.
C1_RetryCount ==
    /\ calls <= 1 + retryDefaults.maxRetries
    /\ (rpc = "loop" /\ seen \subseteq {"429", "5xx"}) =>
            /\ calls <= retryDefaults.maxRetries
            /\ Len(sleeps) = calls
    /\ (rpc = "done" /\ seen # {} /\ seen \subseteq {"429", "5xx"}) =>
            /\ calls = 1 + retryDefaults.maxRetries
            /\ Len(sleeps) = retryDefaults.maxRetries
            /\ client = "discogs" =>
                   outcome = (IF response.status = 429 THEN "rate_limit"
                              ELSE "discogs_api_error")
            /\ client = "spotify" => outcome = "spotify_api_error"

C1_Witness ==
    /\ rpc = "done"
    /\ client = "discogs"
    /\ retryDefaults.maxRetries = 3
    /\ seen = {"429", "5xx"}
    /\ calls = 4
    /\ outcome = "rate_limit"

\* C2: a response with status 400..499 other than 429 is never followed by a
\* backoff or a retry warning: the call fails at once with the client's API
\* error, and when it is the first response exactly one request was issued.
C2_NoRetry ==
    /\ ~(lastRetry.status >= 400 /\ lastRetry.status <= 499 /\ lastRetry.status # 429)
    /\ PermanentFailure(response) =>
            /\ rpc = "done"
            /\ outcome = (IF client = "discogs" THEN "discogs_api_error"
                          ELSE "spotify_api_error")
            /\ calls = Len(sleeps) + 1
            /\ seen = {"4xx"} => (calls = 1 /\ sleeps = <<>> /\ warns = 0)

C2_Witness ==
    /\ client = "discogs"
    /\ response.status = 404
    /\ calls = 1
    /\ rpc = "done"
    /\ outcome = "discogs_api_error"
    /\ retryDefaults.maxRetries = 3

\* the whole seconds a Retry-After value starts with, read right to left
RECURSIVE WholeSeconds(_)
WholeSeconds(h) ==
    IF h = <<>> THEN 0
    ELSE 10 * WholeSeconds(SubSeq(h, 1, Len(h) - 1)) + DigitVal(h[Len(h)])

\* the Retry-After value carries whole seconds (a decimal numeral)
NumericHint(h) == h # Null /\ h # <<>> /\ \A i \in 1..Len(h) : h[i] \in Digits

\* C3: in fetchWithRetry the delay before retry number k is baseDelayMs * 2^k,
\* except that after a 429 carrying a Retry-After of h whole seconds it is
\* max(baseDelayMs * 2^k, h * 1000); a warning is logged per backoff. With
\* baseDelayMs = 100 and 429s without hint the delays are 100, 200, 400; with
\* baseDelayMs = 50 and Retry-After: 1 the first delay is 1000.
C3_Backoff ==
    (client = "discogs" /\ sleeps # <<>>) =>
        LET k == Len(sleeps) - 1
            d == sleeps[Len(sleeps)]
            e == retryDefaults.baseDelayMs * (2 ^ k)
            h == lastRetry.retryAfter
        IN /\ lastRetry.attempt = k
           /\ warns = Len(sleeps)
           /\ (lastRetry.status = 429 /\ NumericHint(h)) =>
                  d = Max(e, WholeSeconds(h) * 1000)
           /\ (lastRetry.status # 429 \/ h = Null) => d = e
           /\ (retryDefaults.baseDelayMs = 100 /\ lastRetry.status = 429 /\ h = Null) =>
                  d = (CASE k = 0 -> 100 [] k = 1 -> 200 [] k = 2 -> 400 [] OTHER -> d)
           /\ (retryDefaults.baseDelayMs = 50 /\ lastRetry.status = 429
                 /\ h = <<"1">> /\ k = 0) => d = 1000

C3_Witness ==
    /\ client = "discogs"
    /\ retryDefaults.baseDelayMs = 50
    /\ lastRetry.status = 429
    /\ lastRetry.retryAfter = <<"1">>
    /\ sleeps = <<1000>>

\* C4 (as claimed): in spotifyFetch the sleep after a 429 response that
\* carries a Retry-After of h whole seconds is max(baseDelayMs * 2^attempt,
\* h * 1000), so it is never shorter than the exponential backoff delay.
C4_SpotifyRetryAfterMax ==
    (client = "spotify" /\ sleeps # <<>> /\ lastRetry.status = 429
       /\ NumericHint(lastRetry.retryAfter)) =>
        LET k == Len(sleeps) - 1
            e == retryDefaults.baseDelayMs * (2 ^ k)
        IN sleeps[Len(sleeps)] = Max(e, WholeSeconds(lastRetry.retryAfter) * 1000)

\* C5 (as claimed): in both clients a call whose every attempt failed at
\* transport level made 1 + maxRetries attempts, backing off baseDelayMs * 2^k
\* before retry k, and ends with the transport error itself.
C5_TransportRetried ==
    /\ (rpc = "done" /\ seen = {"reject"}) =>
            /\ calls = 1 + retryDefaults.maxRetries
            /\ outcome = "transport_error"
    /\ (sleeps # <<>> /\ lastRetry.status = 0) =>
            sleeps[Len(sleeps)] = retryDefaults.baseDelayMs * (2 ^ (Len(sleeps) - 1))

----------------------------------------------------------------------------
(* Properties of the persistent tier, checked under SpecCache *)

\* the rows stored under the lowercased names, whatever their age
RowsOf(artist, album) ==
    {row \in vinyl_cache : /\ row.artist_name = ToLowerCase(artist)
                           /\ row.album_name = ToLowerCase(album)}

\* C6: checkVinylAvailability returns the stored verdict, without starting a
\* catalog search and without writing, whenever the key's row was written less
\* than 7 days (604800 s, in whole clock seconds) before the lookup; when the
\* row is 7 days old or older, or there is none, it starts the catalog search.
C6_CacheFreshness ==
    [][\A artist \in ArtistNames, album \in AlbumNames :
        checkVinylAvailability(artist, album) =>
            IF \E row \in RowsOf(artist, album) :
                   (now \div 1000) - row.checked_at < 604800
            THEN /\ \E row \in RowsOf(artist, album) :
                       result' = [available |-> row.has_vinyl = 1,
                                  discogsUrl |-> row.discogs_url]
                 /\ cpc' = "idle"
                 /\ lookup'.course = "hit"
                 /\ vinyl_cache' = vinyl_cache
            ELSE /\ cpc' = "searching"
                 /\ lookup'.course = "searching"
                 /\ vinyl_cache' = vinyl_cache
                 /\ result' = result]_vars

\* a hit on a row one second short of 7 days old
C6_Witness ==
    /\ lookup.course = "hit"
    /\ \E row \in RowsOf(lookup.artist, lookup.album) :
           /\ lookup.at - row.checked_at = CACHE_TTL_SECONDS - 1
           /\ result.available = (row.has_vinyl = 1)

Trim(s) == TrimRight(SkipSpaces(s))

\* C7 (as claimed): the key is the pair lowercased and trimmed, so calls whose
\* names differ only in letter case or in leading/trailing white space read
\* the same entry, and the table holds one row per such key.
C7_TrimmedLowercasedKey ==
    /\ \A a1 \in ArtistNames, a2 \in ArtistNames, b1 \in AlbumNames, b2 \in AlbumNames :
          (Trim(ToLowerCase(a1)) = Trim(ToLowerCase(a2))
             /\ Trim(ToLowerCase(b1)) = Trim(ToLowerCase(b2))) =>
              getCachedVinylStatus(vinyl_cache, a1, b1, now)
                  = getCachedVinylStatus(vinyl_cache, a2, b2, now)
    /\ \A r1 \in vinyl_cache, r2 \in vinyl_cache :
          (Trim(r1.artist_name) = Trim(r2.artist_name)
             /\ Trim(r1.album_name) = Trim(r2.album_name)) => r1 = r2

\* C7 (amended): the key is the pair lowercased (white space is kept): the
\* stored names are lowercase, the table holds one row per lowercased pair,
\* and after a call stored a verdict, every lookup whose names differ from that
\* call's only in letter case reads that verdict while it is fresh.
C7_LowercasedKey ==
    /\ \A row \in vinyl_cache :
          /\ \A i \in 1..Len(row.artist_name) : row.artist_name[i] \notin {"P", "F", "W"}
          /\ \A i \in 1..Len(row.album_name) : row.album_name[i] \notin {"P", "F", "W"}
    /\ \A r1 \in vinyl_cache, r2 \in vinyl_cache :
          (r1.artist_name = r2.artist_name /\ r1.album_name = r2.album_name) => r1 = r2
    /\ lookup.course = "stored" =>
          \A artist \in ArtistNames, album \in AlbumNames :
              (ToLowerCase(artist) = ToLowerCase(lookup.artist)
                 /\ ToLowerCase(album) = ToLowerCase(lookup.album)
                 /\ (now \div 1000) - lookup.at < 604800) =>
                  LET cached == getCachedVinylStatus(vinyl_cache, artist, album, now)
                  IN /\ cached.found
                     /\ cached.hasVinyl = result.available
                     /\ cached.discogsUrl = result.discogsUrl

\* a verdict stored for ("Pf", "W") is read back as ("pf", "w")
C7_Witness ==
    /\ lookup.course = "stored"
    /\ lookup.artist = <<"P", "f">>
    /\ lookup.album = <<"W">>
    /\ result.available
    /\ getCachedVinylStatus(vinyl_cache, <<"p", "f">>, <<"w">>, now).found

\* C8: when the catalog search throws, checkVinylAvailability returns
\* {available: false, discogsUrl: null}, leaves the table as it was, and the
\* key is still a miss, so the next call for it searches again.
C8_NoPoisoning ==
    [][searchVinylReleaseThrows =>
          /\ result' = [available |-> FALSE, discogsUrl |-> Null]
          /\ cpc' = "idle"
          /\ vinyl_cache' = vinyl_cache
          /\ ~getCachedVinylStatus(vinyl_cache', lookup.artist, lookup.album, now').found]_vars

\* a search failed for a key that has an expired row: the row is still there
C8_Witness ==
    /\ lookup.course = "threw"
    /\ result = Unavailable
    /\ cpc = "idle"
    /\ RowsOf(lookup.artist, lookup.album) # {}

\* C17: a failure of the persistent cache tier during checkVinylAvailability
\* (the read or the write throws) never propagates: the call does not reject,
\* and it returns the verdict "unavailable".
C17_CacheFailuresSwallowed ==
    /\ lookup.course # "rejected"
    /\ lookup.course = "write_threw" => result = Unavailable /\ cpc = "idle"

----------------------------------------------------------------------------
(* Claims about the streaming coordinator, checked under SpecStream *)

\* the consumer went away: it cancelled, or the channel broke under the stream
Disconnected == channel \in {"cancelled", "broken"}

KindCount(kind) == Cardinality({i \in 1..Len(frames) : frames[i].kind = kind})

Elems(seq) == {seq[i] : i \in 1..Len(seq)}

\* what C9 says of every state: at most one [DONE] frame, nothing after it,
\* the channel closed once it is out; and a start routine that ran to its
\* end without the caller going away and without a fatal failure has emitted
\* album frames only, then one [DONE] as the last frame, and closed the channel
DoneIsLast ==
    /\ KindCount("done") <= 1
    /\ \A i \in 1..Len(frames) :
           frames[i].kind = "done" => i = Len(frames) /\ channel = "closed"
    /\ (spc = "done" /\ ~Disconnected) =>
           /\ Len(frames) >= 1
           /\ frames[Len(frames)].kind = "done"
           /\ \A i \in 1..(Len(frames) - 1) : frames[i].kind = "album"
           /\ channel = "closed"
           /\ ~aborted

Eligible ==
    LET nums == Elems(input.topTracks) \cup Elems(input.savedAlbums)
                \cup Elems(input.recentlyPlayed) \cup Elems(input.longTerm)
                \cup Elems(got.recs)
    IN {SpId(n) : n \in {m \in nums : /\ AlbumType(m) = "album"
                                     /\ Availability(m) = {TRUE}
                                     /\ SpId(m) \notin actionedAlbumIds}}
       \cup {FakeId(c.id) : c \in {d \in Elems(got.classics) :
                                      /\ d.titled
                                      /\ ClassicType(d.id) = "album"
                                      /\ FakeId(d.id) \notin actionedAlbumIds}}

C11_CancellationStopsWork ==
    [][aborted => /\ frames' = frames
                  /\ (inflight' # 0 => inflight' = inflight)
                  /\ (spc' = "resolving" => spc = "resolving")]_vars

\* the flag is set after two frames with candidates still pending, and the
\* resolution that was in flight has completed
C11_Witness ==
    /\ aborted
    /\ spc = "albums"
    /\ inflight = 0
    /\ Len(frames) = 2
    /\ Len(queue) >= 2
    /\ totalSent = 3

\* C14: when the parallel fetch of the four listening-history sources fails
\* and the caller has not disconnected, the stream consists of exactly one
\* error frame (no album frame, no [DONE]) and the channel is closed after
\* it; a failed stream emits nothing more and its channel stays as it is.
C14_FatalFetchFailure ==
    [][/\ (fetchSourcesFails /\ channel = "open") =>
              /\ frames' = <<ErrorFrame>>
              /\ channel' = "closed"
              /\ spc' = "failed"
       /\ spc = "failed" => frames' = frames /\ channel' = channel]_vars

\* the exclusion set was loaded, the fetch failed before any source was
\* iterated, and the stream is the one error frame on a closed channel
C14_Witness ==
    /\ spc = "failed"
    /\ actionedAlbumIds # {}
    /\ srcIdx = 0
    /\ frames = <<ErrorFrame>>
    /\ channel = "closed"
    /\ ~aborted

\* seconds since the row was written, at time nowMs
Age(row, nowMs) == NowSeconds(nowMs) - row.created_at

IsOldSkip(row, nowMs) ==
    row.status = "skipped" /\ Age(row, nowMs) >= SKIP_EXPIRY_SECONDS

\* C18 as stated: CLEANUP deletes exactly the rows with status 'skipped' whose
\* age is at least 48 h, the exclusion set is the id of every remaining row,
\* and no album frame has an id of a remaining row.
C18_ExcludesEveryRemainingRow ==
    /\ [][start =>
            /\ user_albums' = {r \in user_albums : ~IsOldSkip(r, now)}
            /\ actionedAlbumIds' = {r.album_id : r \in user_albums'}]_vars
    /\ [](spc # "init" =>
            \A i \in 1..Len(frames) :
                frames[i].kind = "album" =>
                    frames[i].id \notin {r.album_id : r \in user_albums})

\* C18, amended: CLEANUP deletes exactly the rows with status 'skipped' whose
\* age is at least 48 h at the delete; the exclusion set is the id of every
\* remaining row that is not a skip of age at least 48 h at the load, which
\* may read a later clock (owned, wishlist, not_interested and skips younger
\* than 48 h); no album frame of any stage has an id in the exclusion set.
C18_ExclusionFilter ==
    /\ [][start =>
            /\ user_albums' = {r \in user_albums : ~IsOldSkip(r, now)}
            /\ \E elapsedMs \in StartElapsedMs :
                  actionedAlbumIds' =
                      {r.album_id : r \in {k \in user_albums' :
                                              ~IsOldSkip(k, now + elapsedMs)}}]_vars
    /\ [](\A i \in 1..Len(frames) :
              frames[i].kind = "album" => frames[i].id \notin actionedAlbumIds)

\* the table held an owned album 5, a skip of album 1 that was 48 h old and
\* a skip of album 6 one second younger and a skip of album 8 of 47 h: the
\* old skip is gone, albums 5, 6 and 8 are excluded, and album 1 has been
\* emitted again
C18_Witness ==
    /\ actionedAlbumIds = {SpId(5), SpId(6), SpId(8), FakeId(3)}
    /\ {r.album_id : r \in user_albums} = {SpId(5), SpId(6), SpId(8), FakeId(3)}
    /\ \E i \in 1..Len(frames) : frames[i].id = SpId(1)
    /\ spc = "done"
    /\ input.savedAlbums = <<2, 1, 5>>

\* C15: a failure in the collection-based stage (loading the owned and
\* wishlisted rows, the recommendations call, or a resolution inside the
\* stage's loop) is only logged: no frame is added or removed, no error frame
\* is emitted, and the pipeline proceeds to the classics stage.
C15_NonFatalEnrichment ==
    [][(\/ collectionStageFails
        \/ getRecommendationsFails
        \/ (resolveThrows /\ stage = "collection"))
       => /\ frames' = frames
          /\ channel' = channel
          /\ spc' = "classics"]_vars

----------------------------------------------------------------------------
(* Claims about the rate limiter, checked under SpecLimiter *)

\* C12: check(key) is allowed iff fewer than maxRequests earlier allowed
\* checks of that key have a time t > now - windowMs; an allowed check
\* records now, returns remaining = maxRequests - (number of times in the
\* window, now included) and resetMs = earliest time in the window + windowMs
\* - now; the decision is a function of that key's own history, and the
\* timestamps of the other keys are left as they were.
C12_SlidingWindow ==
    [][\A key \in Keys :
          check(key) =>
              LET inWindow == allowedLog[key]
                  n == Len(inWindow)
                  earliest == IF n = 0 THEN clock ELSE inWindow[1]
              IN /\ lres'.allowed <=> n < limiter.maxRequests
                 /\ lres'.allowed =>
                       /\ lres'.remaining = limiter.maxRequests - (n + 1)
                       /\ lres'.resetMs = earliest + limiter.windowMs - clock
                       /\ windows'[key] = Append(inWindow, clock)
                 /\ \A other \in Keys \ {key} :
                       /\ Timestamps(windows', other) = Timestamps(windows, other)
                       /\ allowedLog'[other] = allowedLog[other]]_vars

\* the partial expiry of the tests: the first of three requests has left the
\* window, the check is allowed and takes the last place, while the other
\* key holds timestamps of its own
C12_Witness ==
    /\ limiter.maxRequests = 3
    /\ lres = [key |-> "ip1", at |-> WindowMs + 1, allowed |-> TRUE,
               remaining |-> 0, resetMs |-> 29999]
    /\ Timestamps(windows, "ip2") # <<>>

\* C13: a blocked check returns remaining = 0 and resetMs = (oldest time in
\* the window) + windowMs - now, with 0 < resetMs <= windowMs; a check of a
\* key at a time before an earlier blocked check's now + resetMs is blocked
\* too and announces the same instant; the next check, if made at that
\* instant, is allowed.
C13_BlockedReset ==
    [][\A key \in Keys :
          check(key) =>
              /\ ~lres'.allowed =>
                    /\ lres'.remaining = 0
                    /\ allowedLog[key] # <<>>
                    /\ lres'.resetMs = allowedLog[key][1] + limiter.windowMs - clock
                    /\ lres'.resetMs > 0
                    /\ lres'.resetMs <= limiter.windowMs
                    /\ allowedLog'[key] = allowedLog[key]
              /\ lastBlocked[key] # NoBlock =>
                    LET due == lastBlocked[key].at + lastBlocked[key].resetMs IN
                    /\ clock < due => ~lres'.allowed /\ clock + lres'.resetMs = due
                    /\ clock = due => lres'.allowed]_vars

\* three requests at t = 0 and a check at t = 10000 blocked with
\* resetMs = 50000
C13_Witness ==
    /\ limiter.maxRequests = 3
    /\ Timestamps(windows, "ip1") = <<0, 0, 0>>
    /\ lastBlocked["ip1"] = [at |-> 10000, resetMs |-> 50000]
    /\ lres = [key |-> "ip1", at |-> 10000, allowed |-> FALSE,
               remaining |-> 0, resetMs |-> 50000]

\* the timestamps of `key` that lie in the window that ends now
Pruned(key) ==
    SelectSeq(Timestamps(windows, key), LAMBDA t : t > clock - limiter.windowMs)

\* C23: after any sequence of check, cleanup and reset calls at
\* non-decreasing times every key's stored timestamp list has at most
\* maxRequests entries, and a check finds the key blocked exactly when the
\* list, after pruning, has maxRequests entries; a blocked check stores the
\* pruned list and an allowed one the pruned list and the present time.
C23_WindowInvariant ==
    /\ [](\A k \in DOMAIN windows : Len(windows[k]) <= limiter.maxRequests)
    /\ [][\A key \in Keys :
             check(key) =>
                 /\ ~lres'.allowed <=> Len(Pruned(key)) = limiter.maxRequests
                 /\ windows'[key] = IF lres'.allowed
                                    THEN Append(Pruned(key), clock)
                                    ELSE Pruned(key)]_vars

\* of three recorded requests the first has left the window; the two that
\* remain fill a limit of two and the check is blocked
C23_Witness ==
    /\ limiter.maxRequests = 2
    /\ clock = WindowMs + 1
    /\ lres = [key |-> "ip1", at |-> clock, allowed |-> FALSE, remaining |-> 0,
               resetMs |-> 10000 + WindowMs - clock]
    /\ Timestamps(windows, "ip1") = <<10000, 30000>>
    /\ "ip2" \notin DOMAIN windows

\* C28: cleanup() removes exactly the keys that have no timestamp t with
\* t > now - windowMs and keeps every unexpired timestamp of the other keys
\* (and those only); and every check() returns the same allowed, remaining
\* and resetMs as the check of a limiter that got the same check() and
\* reset() calls at the same times with no cleanup() in between.
C28_SweepTransparent ==
    /\ [][cleanup =>
            /\ DOMAIN windows' = {k \in DOMAIN windows : Pruned(k) # <<>>}
            /\ \A k \in DOMAIN windows' : windows'[k] = Pruned(k)]_vars
    /\ [][\A key \in Keys :
             check(key) =>
                 LET plain == Check(unswept, limiter, key, clock) IN
                 /\ lres'.allowed = plain.allowed
                 /\ lres'.remaining = plain.remaining
                 /\ lres'.resetMs = plain.resetMs]_vars

\* a sweep has removed the expired key ip2 and pruned ip1, and the check of
\* ip1 that followed got what the unswept limiter answers
C28_Witness ==
    /\ "ip2" \in DOMAIN unswept
    /\ "ip2" \notin DOMAIN windows
    /\ lres.key = "ip1"
    /\ lres.at = clock
    /\ lres.allowed
    /\ Len(Timestamps(windows, "ip1")) = 2
    /\ clock = WindowMs + 1

----------------------------------------------------------------------------
(* Claims about the streaming endpoint, checked under SpecEndpoint *)

\* C16: every request to the streaming endpoint is first submitted to the
\* rate limiter as a check on the client's key, and only a request that the
\* limiter allowed gets a stream (cleanup, source fetches, resolutions); a
\* blocked request gets none.
C16_LimiterGuardsPipeline ==
    [][\A key \in Keys, authed \in BOOLEAN :
          GET(key, authed) =>
              LET r == Check(windows, limiter, key, clock) IN
              /\ windows' = r.windows
              /\ served'[key] > served[key] => r.allowed]_vars

\* the checkVinylAvailability calls started so far for album n
Resolutions(calls_, n) == IF n \in DOMAIN calls_ THEN calls_[n] ELSE 0

\* the positions of the album frames with this id
FramesOf(id) == {i \in 1..Len(frames) : frames[i].kind = "album" /\ frames[i].id = id}

FullLength(frame) ==
    IF frame.id = SpId(frame.id[2])
    THEN AlbumType(frame.id[2]) = "album"
    ELSE ClassicType(frame.id[2]) = "album"

\* C20: no album frame is ever emitted, in any stage of the stream, for a
\* release that is not a full-length album.
C20_SinglesExcluded ==
    \A i \in 1..Len(frames) : frames[i].kind = "album" => FullLength(frames[i])

\* the place of a frame in the order of stages and sources
SourceRank(frame) ==
    IF frame.kind # "album" THEN 7
    ELSE CASE frame.source = "top_tracks" -> 1
           [] frame.source = "saved_albums" -> 2
           [] frame.source = "recent_plays" -> 3
           [] frame.source = "long_term" -> 4
           [] frame.source = "collection_based" -> 5
           [] frame.source = "classic" -> 6

\* C21: within one stream the album frames are ordered by stage and source:
\* top_tracks, then saved_albums, recent_plays, long_term, collection_based
\* and classic; no frame of an earlier source follows a frame of a later
\* one, and [DONE] (or the error frame of a fatal failure) follows them all.
C21_EmissionOrder ==
    \A i \in 1..Len(frames) : \A j \in i..Len(frames) :
        SourceRank(frames[i]) <= SourceRank(frames[j])

\* a finished stream with frames of three sources, of the collection-based
\* stage and of the classics, then [DONE]
C21_Witness ==
    /\ spc = "done"
    /\ Len(frames) > 5
    /\ frames[Len(frames)].kind = "done"
    /\ {"top_tracks", "saved_albums", "long_term", "collection_based", "classic"}
          \subseteq {frames[i].source : i \in 1..Len(frames)}

\* the start routine has returned
Returned == spc \in {"done", "failed"}

\* C22 as stated: in every execution (normal end, fatal error, caller
\* disconnect at any point) the coordinator has closed the channel exactly
\* once when its routine returns, and every enqueue or close that throws is
\* caught and leaves the abort flag set.
C22_ReleasedExactlyOnce ==
    /\ [](Returned => closes = 1)
    /\ [][thrown' > thrown => aborted']_vars

\* C22, amended: the coordinator closes the channel at most once; exactly
\* once when its routine returns (normal end or fatal error) without the
\* caller having disconnected, and never after a disconnect, which has
\* released the channel already. Every enqueue or close that throws on a
\* channel that is not open is caught, and the abort flag is set afterwards.
C22_ChannelLifecycle ==
    /\ [](/\ closes <= 1
          /\ channel = "closed" <=> closes = 1
          /\ (Returned /\ ~Disconnected) => closes = 1)
    /\ [][/\ thrown' > thrown => aborted'
          /\ Disconnected => closes' = closes]_vars

\* the channel broke unnoticed and a fatal failure followed: the enqueue of
\* the error frame threw, then close threw, both were caught, and the
\* routine returned with the flag set
C22_Witness ==
    /\ spc = "failed"
    /\ channel = "broken"
    /\ thrown = 2
    /\ closes = 0
    /\ aborted
    /\ Len(frames) >= 1

----------------------------------------------------------------------------
(* Claims about concurrent callers of the persistent tier, checked under
   SpecRace *)

\* the latest write replaced a row that was written after the writer's own
\* cache read had missed: two calls resolved the key concurrently
Raced ==
    /\ lastWrite.course = "stored"
    /\ lastWrite.before # -1
    /\ lastWrite.before >= lastWrite.readAt

\* C24: for any interleaving of concurrent checkVinylAvailability calls on
\* one normalized key that all miss, all search and all write, no write fails
\* on the uniqueness constraint, and after each write the table holds exactly
\* one row for the key, which carries the verdict of that (the last) write;
\* the table never holds two rows of one key.
C24_ConcurrentFirstResolution ==
    /\ [](\A r1 \in vinyl_cache : Conflicting(vinyl_cache, r1) = {r1})
    /\ [][\A p \in Callers, releases \in Releases :
             raceSearchReturns(p, releases) =>
                 /\ lastWrite'.course = "stored"
                 /\ Conflicting(vinyl_cache', lastWrite'.row) = {lastWrite'.row}
                 /\ lastWrite'.row.has_vinyl = (IF Len(releases) > 0 THEN 1 ELSE 0)
                 /\ lastWrite'.returned.available = (Len(releases) > 0)]_vars

\* two callers missed on the key (under different spellings), the first
\* stored a verdict and the second has replaced it with "no vinyl"
C24_Witness ==
    /\ Raced
    /\ lastWrite.row.has_vinyl = 0
    /\ lastWrite.row.artist_name = <<"p", "f">>
    /\ Conflicting(vinyl_cache, lastWrite.row) = {lastWrite.row}
    /\ \A p \in Callers : procs[p].pc = "idle"

\* checked_at of the row the table holds for the key of `row`
CheckedAt(cache, row) == (CHOOSE r \in Conflicting(cache, row) : TRUE).checked_at

\* a step in which setCachedVinylStatus rewrites the row of an existing key
Rewrites ==
    /\ \E p \in Callers, releases \in Releases : raceSearchReturns(p, releases)
    /\ Conflicting(vinyl_cache, lastWrite'.row) # {}

\* C29 as stated: whenever setCachedVinylStatus rewrites the row of an
\* existing key (a refresh after a miss, or a second write after a concurrent
\* first resolution), checked_at after the write is strictly greater than
\* before it.
C29_CheckedAtStrictlyIncreases ==
    [][Rewrites => CheckedAt(vinyl_cache', lastWrite'.row)
                      > CheckedAt(vinyl_cache, lastWrite'.row)]_vars

\* C29, amended: a rewrite never decreases checked_at and sets it to the
\* second of the write; it is strictly greater after a refresh (the row was
\* there, expired, when the writer's cache read missed), and equal only when
\* the row was written by a concurrent call within the same clock second.
C29_CheckedAtNeverDecreases ==
    [][Rewrites =>
          LET before == CheckedAt(vinyl_cache, lastWrite'.row)
              after == CheckedAt(vinyl_cache', lastWrite'.row)
          IN /\ after = NowSeconds(now)
             /\ after >= before
             /\ before < lastWrite'.readAt => after >= before + CACHE_TTL_SECONDS
             /\ after = before => before >= lastWrite'.readAt]_vars

\* a refresh: the row was a TTL old when the read missed, and the write has
\* moved checked_at forward
C29_Witness ==
    /\ lastWrite.course = "stored"
    /\ lastWrite.before = 0
    /\ lastWrite.readAt = CACHE_TTL_SECONDS
    /\ CheckedAt(vinyl_cache, lastWrite.row) = CACHE_TTL_SECONDS + 1

----------------------------------------------------------------------------
(* Claims about the catalog client's in-memory cache, checked under SpecMem *)

\* C25: two discogsFetch calls with the identical endpoint issued within 5
\* minutes of each other cause one outbound request and return the same
\* response, also when the second starts before the first has its response:
\* no two calls wait for a response to the same endpoint at once, a call that
\* finds an entry younger than 5 minutes sends nothing and returns the entry's
\* body, and a call made 5 minutes or more after the entry was stored goes out
\* again.
C25_DuplicateCallsCollapsed ==
    /\ [](\A f1, f2 \in Fetchers :
             (/\ fetchers[f1].pc = "waiting"
              /\ fetchers[f2].pc = "waiting"
              /\ fetchers[f1].endpoint = fetchers[f2].endpoint) => f1 = f2)
    /\ [][\A f \in Fetchers, endpoint \in Endpoints :
             memDiscogsFetch(f, endpoint) =>
                 IF /\ endpoint \in DOMAIN memCache
                    /\ memNow - memCache[endpoint].timestamp < MEM_CACHE_TTL
                 THEN /\ outbound' = outbound
                      /\ fetchers'[f].got = memCache[endpoint].data
                 ELSE outbound'[endpoint] = outbound[endpoint] + 1]_vars

----------------------------------------------------------------------------
(* Claims about the bulk lookup, checked under SpecBulk *)

\* the pair has a row in the table with now - checked_at < 7 days
HasFreshRow(pair) ==
    \E row \in vinyl_cache :
        /\ row.artist_name = ToLowerCase(pair.artist)
        /\ row.album_name = ToLowerCase(pair.album)
        /\ NowSeconds(now) - row.checked_at < CACHE_TTL_SECONDS

\* C26: getBulkCachedVinylStatus returns a mapping that contains, under the
\* normalized key 'artist|album', exactly those input pairs that have a row
\* with now - checked_at < 7 days, each with its row's verdict; pairs with an
\* expired row or with no row are omitted, every key is the key of an input
\* pair, an empty input yields an empty mapping, and the table is left as it
\* is.
C26_BulkReturnsOnlyHits ==
    bulk.called =>
        /\ \A i \in 1..Len(bulk.albums) :
              LET pair == bulk.albums[i]
                  key == BulkKey(pair.artist, pair.album)
              IN /\ key \in DOMAIN bulk.results <=> HasFreshRow(pair)
                 /\ HasFreshRow(pair) =>
                        \E row \in vinyl_cache :
                            /\ row.artist_name = ToLowerCase(pair.artist)
                            /\ row.album_name = ToLowerCase(pair.album)
                            /\ bulk.results[key].hasVinyl = (row.has_vinyl = 1)
                            /\ bulk.results[key].discogsUrl = row.discogs_url
        /\ \A key \in DOMAIN bulk.results :
              \E i \in 1..Len(bulk.albums) :
                  key = BulkKey(bulk.albums[i].artist, bulk.albums[i].album)
        /\ bulk.albums = <<>> => bulk.results = << >>

----------------------------------------------------------------------------
(* Further claims about the streaming coordinator, checked under SpecStream *)

\* C27: at every moment of a stream at most one checkVinylAvailability call
\* is outstanding: a resolution starts only when none is in flight, after the
\* previous candidate's resolution has returned and its frame (if it was
\* available) has been emitted; the only position with more than one call
\* outstanding is the parallel fetch of the four sources.
C27_OneResolutionInFlight ==
    /\ [](/\ inflight # 0 <=> spc = "resolving"
          /\ Cardinality(Outstanding) > 1 => spc = "fetch"
          /\ spc = "fetch" => resolutions = NoCalls)
    /\ [][resolutions' # resolutions =>
             /\ inflight = 0
             /\ spc = "albums"
             /\ spc' = "resolving"
             /\ KindCount("album") = totalSent]_vars

\* the third resolution of a stream is in flight: the two before it have
\* returned, album 1 is out and album 2 had no vinyl release
C27_Witness ==
    /\ spc = "resolving"
    /\ inflight = 5
    /\ Resolutions(resolutions, 1) = 1
    /\ Resolutions(resolutions, 2) = 1
    /\ Resolutions(resolutions, 5) = 1
    /\ Len(frames) = 1
    /\ totalSent = 1

\* C30: once the abort flag is set, the start routine eventually returns,
\* even when the outbound call in flight at the moment of the abort never
\* gets a response.
C30_NoBlockingAfterAbort == aborted ~> Returned

====
